---- MODULE Spec2Model ----
(***************************************************************************)
(* wgsl_bindgen: resolution of the bind groups of a shader module          *)
(* (generate/bind_group/mod.rs, get_bind_group_data) and the batch driver  *)
(* that turns a list of modules into generated text (lib.rs,               *)
(* create_rust_bindings).                                                  *)
(***************************************************************************)
EXTENDS Integers, Sequences, FiniteSets, TLC

(***************************************************************************)
(* Bounds of the model.                                                    *)
(***************************************************************************)
\* largest number of global variables of a module
MaxGlobals == 4
\* largest group index a global may declare
MaxGroup == 2
\* largest binding index a global may declare
MaxBinding == 1
\* largest number of shader modules handed to one call of create_rust_bindings
MaxEntries == 3

(***************************************************************************)
(* Option<T>: None is the empty tuple, Some(v) the one-element tuple.      *)
(***************************************************************************)
None == <<>>
Some(v) == <<v>>
IsSome(o) == Len(o) = 1
Unwrap(o) == o[1]

(***************************************************************************)
(* The input: a naga::Module, of which the generator reads the types, the  *)
(* global variables (an arena iterated in declaration order) and the       *)
(* stages of the entry points.  A global has an optional name, a type      *)
(* handle, an address space and an optional ResourceBinding.               *)
(***************************************************************************)
\* module.types: the arena of the modules modelled here holds
\* `struct A { f: vec4<f32> }` and `vec4<f32>`, the two types the tests of
\* lib.rs bind resources to.  StructA and Vec4F32 are their handles.
StructA == 1
Vec4F32 == 2
Types == << [inner |-> "Struct"], [inner |-> "Vector"] >>

\* naga::AddressSpace of `var<uniform>`
Uniform == [class |-> "Uniform", access |-> {}]
GlobalNames == <<"a", "b", "c", "d", "e", "f", "g", "h">>

ResourceBindings ==
  { [group |-> g, binding |-> b] : g \in 0..MaxGroup, b \in 0..MaxBinding }

OptionalBindings == {None} \cup { Some(rb) : rb \in ResourceBindings }

\* the global declared at position i with the optional binding ob
GlobalVariable(i, ty_, ob) ==
  [ name |-> Some(GlobalNames[i]), ty |-> ty_, space |-> Uniform, binding |-> ob ]

\* an entry point, of which the generator reads the name and the stage
EntryPoint(name_, stage_) == [name |-> name_, stage |-> stage_]

\* the module whose i-th global is `var<uniform>` of type A with the optional
\* binding f[i], and whose only entry point is a fragment shader
ModuleOf(f) ==
  [ global_variables |-> [i \in DOMAIN f |-> GlobalVariable(i, StructA, f[i])],
    entry_points |-> << EntryPoint("main", "Fragment") >> ]

(***************************************************************************)
(* BTreeMap<u32, GroupData>: a sequence of [key, value] entries kept in    *)
(* ascending key order, which is the order keys() and iter() visit.        *)
(***************************************************************************)
BTreeNew == <<>>

BTreeKeys(m) == [i \in 1..Len(m) |-> m[i].key]

BTreeContains(m, k) == \E i \in 1..Len(m) : m[i].key = k

BTreeIndexOf(m, k) == CHOOSE i \in 1..Len(m) : m[i].key = k

BTreeGet(m, k) == m[BTreeIndexOf(m, k)].value

\* Mutant: a map that keeps insertion order instead of key order.
BTreeEntryOrInsert_Unsorted(m, k, v) ==
  IF BTreeContains(m, k) THEN m ELSE Append(m, [key |-> k, value |-> v])

\* entry(k).or_insert(v): the map with k present, inserted in key order
BTreeEntryOrInsert(m, k, v) ==
  IF BTreeContains(m, k) THEN m
  ELSE LET n == Cardinality({ i \in 1..Len(m) : m[i].key < k })
       IN SubSeq(m, 1, n) \o << [key |-> k, value |-> v] >> \o SubSeq(m, n + 1, Len(m))

\* assignment through the &mut returned by entry(k).or_insert(..)
BTreeSet(m, k, v) ==
  [i \in 1..Len(m) |-> IF m[i].key = k THEN [key |-> k, value |-> v] ELSE m[i]]

(***************************************************************************)
(* GroupData and GroupBinding.                                             *)
(***************************************************************************)
GroupDataNew == [bindings |-> <<>>]

\* Mutant: every binding is recorded in the uniform address space.
GroupBinding_UniformSpace(global, binding) ==
  [ name |-> global.name,
    binding_index |-> binding.binding,
    binding_type |-> Types[global.ty],
    address_space |-> Uniform ]

GroupBinding(global, binding) ==
  [ name |-> global.name,
    binding_index |-> binding.binding,
    binding_type |-> Types[global.ty],
    address_space |-> global.space ]

\* Mutant: the duplicate test never fires.
AnySameBindingIndex_Never(group, b) == FALSE

\* Mutant: only the binding pushed last is compared.
AnySameBindingIndex_LastOnly(group, b) ==
  /\ Len(group.bindings) > 0
  /\ group.bindings[Len(group.bindings)].binding_index = b

\* group.bindings.iter().any(|g| g.binding_index == binding.binding)
AnySameBindingIndex(group, b) ==
  \E i \in 1..Len(group.bindings) : group.bindings[i].binding_index = b

\* Mutant: the new binding is inserted in binding-index order.
PushBinding_SortedByIndex(group, group_binding) ==
  LET n == Cardinality({ i \in 1..Len(group.bindings) :
                           group.bindings[i].binding_index < group_binding.binding_index })
  IN [bindings |-> SubSeq(group.bindings, 1, n) \o << group_binding >>
                     \o SubSeq(group.bindings, n + 1, Len(group.bindings))]

\* group.bindings.push(group_binding)
PushBinding(group, group_binding) ==
  [bindings |-> Append(group.bindings, group_binding)]

(***************************************************************************)
(* CreateModuleError and the Result of get_bind_group_data.                *)
(***************************************************************************)
NoError == [variant |-> "None", binding |-> None]
NonConsecutiveBindGroups == [variant |-> "NonConsecutiveBindGroups", binding |-> None]
DuplicateBinding(b) == [variant |-> "DuplicateBinding", binding |-> Some(b)]

Running == [kind |-> "Running", error |-> NoError, groups |-> BTreeNew]
Ok(groups_) == [kind |-> "Ok", error |-> NoError, groups |-> groups_]
Err(e) == [kind |-> "Err", error |-> e, groups |-> BTreeNew]

\* Mutant: a duplicate found while the keys of the map are not 0..len is
\* reported as NonConsecutiveBindGroups.
LoopBody_ContiguityFirst(groups_, global) ==
  IF IsSome(global.binding)
  THEN LET binding == Unwrap(global.binding)
           inserted == BTreeEntryOrInsert(groups_, binding.group, GroupDataNew)
           group == BTreeGet(inserted, binding.group)
           group_binding == GroupBinding(global, binding)
       IN IF AnySameBindingIndex(group, binding.binding)
          THEN [groups |-> inserted,
                error |-> IF BTreeKeys(inserted) = [i \in 1..Len(inserted) |-> i - 1]
                          THEN DuplicateBinding(binding.binding)
                          ELSE NonConsecutiveBindGroups]
          ELSE [groups |-> BTreeSet(inserted, binding.group, PushBinding(group, group_binding)),
                error |-> NoError]
  ELSE [groups |-> groups_, error |-> NoError]

\* Mutant: the error carries the group index instead of the binding index.
LoopBody_ReportsGroup(groups_, global) ==
  IF IsSome(global.binding)
  THEN LET binding == Unwrap(global.binding)
           inserted == BTreeEntryOrInsert(groups_, binding.group, GroupDataNew)
           group == BTreeGet(inserted, binding.group)
           group_binding == GroupBinding(global, binding)
       IN IF AnySameBindingIndex(group, binding.binding)
          THEN [groups |-> inserted, error |-> DuplicateBinding(binding.group)]
          ELSE [groups |-> BTreeSet(inserted, binding.group, PushBinding(group, group_binding)),
                error |-> NoError]
  ELSE [groups |-> groups_, error |-> NoError]

\* Mutant: the binding index is looked for in every group of the map.
LoopBody_UniqueAcrossGroups(groups_, global) ==
  IF IsSome(global.binding)
  THEN LET binding == Unwrap(global.binding)
           inserted == BTreeEntryOrInsert(groups_, binding.group, GroupDataNew)
           group == BTreeGet(inserted, binding.group)
           group_binding == GroupBinding(global, binding)
       IN IF \E i \in 1..Len(inserted) : AnySameBindingIndex(inserted[i].value, binding.binding)
          THEN [groups |-> inserted, error |-> DuplicateBinding(binding.binding)]
          ELSE [groups |-> BTreeSet(inserted, binding.group, PushBinding(group, group_binding)),
                error |-> NoError]
  ELSE [groups |-> groups_, error |-> NoError]

\* Mutant: a global without a binding is given the default binding (0, 0).
LoopBody_UnboundAsDefault(groups_, global) ==
  LET binding == IF IsSome(global.binding) THEN Unwrap(global.binding)
                 ELSE [group |-> 0, binding |-> 0]
      inserted == BTreeEntryOrInsert(groups_, binding.group, GroupDataNew)
      group == BTreeGet(inserted, binding.group)
      group_binding == GroupBinding(global, binding)
  IN IF AnySameBindingIndex(group, binding.binding)
     THEN [groups |-> inserted, error |-> DuplicateBinding(binding.binding)]
     ELSE [groups |-> BTreeSet(inserted, binding.group, PushBinding(group, group_binding)),
           error |-> NoError]

(***************************************************************************)
(* One iteration of the loop over module.global_variables: the map after   *)
(* the iteration and the error the iteration returns, if any.              *)
(***************************************************************************)
LoopBody(groups_, global) ==
  IF IsSome(global.binding)
  THEN LET binding == Unwrap(global.binding)
           inserted == BTreeEntryOrInsert(groups_, binding.group, GroupDataNew)
           group == BTreeGet(inserted, binding.group)
           group_binding == GroupBinding(global, binding)
       IN IF AnySameBindingIndex(group, binding.binding)
          THEN [groups |-> inserted, error |-> DuplicateBinding(binding.binding)]
          ELSE [groups |-> BTreeSet(inserted, binding.group, PushBinding(group, group_binding)),
                error |-> NoError]
  ELSE [groups |-> groups_, error |-> NoError]

\* Mutant: only the first key is compared with 0.
KeysConsecutive_FirstKeyOnly(groups_) ==
  Len(groups_) = 0 \/ groups_[1].key = 0

\* Mutant: the keys must follow each other but may start anywhere.
KeysConsecutive_NoStartCheck(groups_) ==
  \A i \in 1..(Len(groups_) - 1) : groups_[i + 1].key = groups_[i].key + 1

\* groups.keys().map(|i| *i as usize).eq(0..groups.len())
KeysConsecutive(groups_) ==
  BTreeKeys(groups_) = [i \in 1..Len(groups_) |-> i - 1]

\* the return statement after the loop
FinalCheck(groups_) ==
  IF KeysConsecutive(groups_) THEN Ok(groups_) ELSE Err(NonConsecutiveBindGroups)

\* get_bind_group_data as a function of the module
RECURSIVE ScanGlobals(_, _, _)
ScanGlobals(globals, i, groups_) ==
  IF i > Len(globals) THEN FinalCheck(groups_)
  ELSE LET step == LoopBody(groups_, globals[i])
       IN IF step.error.variant # "None" THEN Err(step.error)
          ELSE ScanGlobals(globals, i + 1, step.groups)

get_bind_group_data(mod) == ScanGlobals(mod.global_variables, 1, BTreeNew)

(***************************************************************************)
(* Code generation for the bind groups of one module.  A generator either  *)
(* yields tokens or panics (panic!, todo!, unwrap on an error).            *)
(***************************************************************************)
Tokens(t) == [panics |-> FALSE, tokens |-> t]
Panic == [panics |-> TRUE, tokens |-> <<>>]

\* wgsl::shader_stages: the set of stages of the entry points of the module
StageFlag(stage) ==
  CASE stage = "Vertex" -> "VERTEX"
    [] stage = "Fragment" -> "FRAGMENT"
    [] stage = "Compute" -> "COMPUTE"

shader_stages(mod) ==
  { StageFlag(mod.entry_points[i].stage) : i \in 1..Len(mod.entry_points) }

\* wgsl::buffer_binding_type
buffer_binding_type(space) ==
  CASE space.class = "Uniform" -> [ty |-> "Uniform", read_only |-> FALSE]
    [] space.class = "Storage" -> [ty |-> "Storage", read_only |-> "STORE" \notin space.access]

storage_access_Swapped(access) ==
  LET is_read == "LOAD" \in access
      is_write == "STORE" \in access
  IN CASE is_read /\ is_write -> Tokens("ReadWrite")
       [] is_read /\ ~is_write -> Tokens("WriteOnly")
       [] ~is_read /\ is_write -> Tokens("ReadOnly")
       [] OTHER -> Panic

storage_access(access) ==
  LET is_read == "LOAD" \in access
      is_write == "STORE" \in access
  IN CASE is_read /\ is_write -> Tokens("ReadWrite")
       [] is_read /\ ~is_write -> Tokens("ReadOnly")
       [] ~is_read /\ is_write -> Tokens("WriteOnly")
       [] OTHER -> Panic

\* the stage sets the match on shader_stages has an arm for
\* Mutant: VERTEX | COMPUTE has an arm too.
LayoutEntryStages_WithVertexCompute ==
  { {"VERTEX", "FRAGMENT"}, {"COMPUTE"}, {"VERTEX"}, {"FRAGMENT"}, {"VERTEX", "COMPUTE"} }

LayoutEntryStages ==
  { {"VERTEX", "FRAGMENT"}, {"COMPUTE"}, {"VERTEX"}, {"FRAGMENT"} }

\* the Buffer arm: the buffer kind comes from the address space
BufferBinding_DynamicOffset(address_space) ==
  Tokens([ tag |-> "Buffer",
           ty |-> buffer_binding_type(address_space),
           has_dynamic_offset |-> TRUE,
           min_binding_size |-> None ])

BufferBinding(address_space) ==
  Tokens([ tag |-> "Buffer",
           ty |-> buffer_binding_type(address_space),
           has_dynamic_offset |-> FALSE,
           min_binding_size |-> None ])

\* naga::ImageDimension to wgpu::TextureViewDimension
ViewDimension(dim) ==
  CASE dim = "ImageDimension::D1" -> "TextureViewDimension::D1"
    [] dim = "ImageDimension::D2" -> "TextureViewDimension::D2"
    [] dim = "ImageDimension::D3" -> "TextureViewDimension::D3"
    [] dim = "ImageDimension::Cube" -> "TextureViewDimension::Cube"

\* naga::ScalarKind of a sampled image to wgpu::TextureSampleType
SampleType_Filterable(kind) ==
  CASE kind = "Sint" -> Tokens([kind |-> "Sint", filterable |-> None])
    [] kind = "Uint" -> Tokens([kind |-> "Uint", filterable |-> None])
    [] kind = "Float" -> Tokens([kind |-> "Float", filterable |-> Some(TRUE)])
    [] OTHER -> Panic

SampleType(kind) ==
  CASE kind = "Sint" -> Tokens([kind |-> "Sint", filterable |-> None])
    [] kind = "Uint" -> Tokens([kind |-> "Uint", filterable |-> None])
    [] kind = "Float" -> Tokens([kind |-> "Float", filterable |-> Some(FALSE)])
    [] OTHER -> Panic

\* the Sampler arm
SamplerBindingType_Inverted(comparison) ==
  IF comparison THEN "Filtering" ELSE "Comparison"

SamplerBindingType(comparison) ==
  IF comparison THEN "Comparison" ELSE "Filtering"

\* the `match binding.binding_type.inner` of bind_group_layout_entry
BindingTypeTokens(binding) ==
  LET ty == binding.binding_type
  IN CASE ty.inner \in {"Scalar", "Struct", "Array"} ->
            BufferBinding(binding.address_space)
       [] ty.inner = "Image" ->
            ( CASE ty.class.tag = "Sampled" ->
                     IF SampleType(ty.class.kind).panics THEN Panic
                     ELSE Tokens([ tag |-> "Texture",
                                   sample_type |-> SampleType(ty.class.kind).tokens,
                                   view_dimension |-> ViewDimension(ty.dim),
                                   multisampled |-> ty.class.multi ])
                [] ty.class.tag = "Depth" ->
                     Tokens([ tag |-> "Texture",
                              sample_type |-> [kind |-> "Depth", filterable |-> None],
                              view_dimension |-> ViewDimension(ty.dim),
                              multisampled |-> ty.class.multi ])
                [] ty.class.tag = "Storage" ->
                     IF storage_access(ty.class.access).panics THEN Panic
                     ELSE Tokens([ tag |-> "StorageTexture",
                                   access |-> storage_access(ty.class.access).tokens,
                                   format |-> ty.class.format,
                                   view_dimension |-> ViewDimension(ty.dim) ]) )
       [] ty.inner = "Sampler" ->
            Tokens([ tag |-> "Sampler",
                     sampler |-> SamplerBindingType(ty.comparison) ])
       [] OTHER -> Panic

bind_group_layout_entry(binding, stages) ==
  IF stages \notin LayoutEntryStages THEN Panic
  ELSE IF BindingTypeTokens(binding).panics THEN Panic
  ELSE Tokens([ binding |-> binding.binding_index,
                visibility |-> stages,
                ty |-> BindingTypeTokens(binding).tokens,
                count |-> None ])

\* Mutant: the entries are emitted from the last binding to the first.
bind_group_layout_descriptor_Reversed(data, stages) ==
  IF \E i \in 1..Len(data.bindings) : bind_group_layout_entry(data.bindings[i], stages).panics
  THEN Panic
  ELSE Tokens([i \in 1..Len(data.bindings) |->
                 bind_group_layout_entry(data.bindings[Len(data.bindings) + 1 - i],
                                         stages).tokens])

\* BindGroupBuilder::bind_group_layout_descriptor: one entry per binding
bind_group_layout_descriptor(data, stages) ==
  IF \E i \in 1..Len(data.bindings) : bind_group_layout_entry(data.bindings[i], stages).panics
  THEN Panic
  ELSE Tokens([i \in 1..Len(data.bindings) |->
                 bind_group_layout_entry(data.bindings[i], stages).tokens])

\* indexed_name_to_ident("BindGroup", index), as a (name, index) pair
indexed_name_to_ident(name_, index) == << name_, index >>

\* indexed_name_ident(name, index) of the bind group generator, as a pair
indexed_name_ident(name_, index) == << name_, index >>

\* BindGroupBuilder::struct_name
struct_name(group_no) == indexed_name_ident("WgpuBindGroup", group_no)

\* the pass type of bind_group_struct_impl
StructRenderPass(stages) ==
  IF stages = {"COMPUTE"} THEN "wgpu::ComputePass" ELSE "wgpu::RenderPass"

\* BindGroupBuilder::build: the struct of one group and its impl, after the
\* bindings struct that BindGroupLayoutBuilder emits for the group
BindGroupBuild(group_no, data, stages) ==
  IF bind_group_layout_descriptor(data, stages).panics THEN Panic
  ELSE Tokens([ layout_struct |-> indexed_name_ident("WgpuBindGroupLayout", group_no),
                name |-> struct_name(group_no),
                LAYOUT_DESCRIPTOR |-> bind_group_layout_descriptor(data, stages).tokens,
                from_bindings |-> indexed_name_ident("WgpuBindGroupLayout", group_no),
                set |-> [ pass |-> StructRenderPass(stages),
                          set_bind_group |-> group_no ] ])

\* the fields of WgpuBindGroups
BindGroupFields(bind_group_data) ==
  [e \in 1..Len(bind_group_data) |->
     [ field |-> indexed_name_ident("bind_group", bind_group_data[e].key),
       ty |-> indexed_name_ident("WgpuBindGroup", bind_group_data[e].key) ]]

\* the pass type of WgpuBindGroups::set and of set_bind_groups
RenderPass(stages) ==
  IF stages = {"COMPUTE"} THEN "wgpu::ComputePass" ELSE "wgpu::RenderPass"

\* the parameters of set_bind_groups after the pass
GroupParameters(bind_group_data) ==
  [e \in 1..Len(bind_group_data) |->
     [ name |-> indexed_name_ident("bind_group", bind_group_data[e].key),
       ty |-> indexed_name_ident("WgpuBindGroup", bind_group_data[e].key) ]]

\* Mutant: the groups are set from the last to the first.
SetGroups_Descending(bind_group_data) ==
  [e \in 1..Len(bind_group_data) |->
     [ receiver |-> indexed_name_ident("bind_group",
                                       bind_group_data[Len(bind_group_data) + 1 - e].key),
       call |-> "set" ]]

\* one `bind_groupK.set(pass);` per key of the map
SetGroups(bind_group_data) ==
  [e \in 1..Len(bind_group_data) |->
     [ receiver |-> indexed_name_ident("bind_group", bind_group_data[e].key),
       call |-> "set" ]]

\* bind_groups_module: no tokens for an empty map, else the module
\* bind_groups, with one bind group type per entry of the map in the order
\* of its keys and the struct WgpuBindGroups, and the function set_bind_groups
bind_groups_module(bind_group_data, stages) ==
  IF \E e \in 1..Len(bind_group_data) :
       BindGroupBuild(bind_group_data[e].key, bind_group_data[e].value, stages).panics
  THEN Panic
  ELSE IF Len(bind_group_data) = 0 THEN Tokens(<<>>)
  ELSE Tokens(<< [ item |-> "mod bind_groups",
                   bind_groups |->
                     [e \in 1..Len(bind_group_data) |->
                        BindGroupBuild(bind_group_data[e].key,
                                       bind_group_data[e].value, stages).tokens],
                   fields |-> BindGroupFields(bind_group_data),
                   pass |-> RenderPass(stages),
                   parameters |-> <<>>,
                   set_groups |-> SetGroups(bind_group_data) ],
                 [ item |-> "fn set_bind_groups",
                   bind_groups |-> <<>>,
                   fields |-> <<>>,
                   pass |-> RenderPass(stages),
                   parameters |-> GroupParameters(bind_group_data),
                   set_groups |-> SetGroups(bind_group_data) ] >>)

\* the bind_group_layouts list of create_pipeline_layout
bind_group_layouts(bind_group_data) ==
  [e \in 1..Len(bind_group_data) |->
     indexed_name_to_ident("BindGroup", bind_group_data[e].key)]

(***************************************************************************)
(* The state machine of one call of get_bind_group_data.                   *)
(***************************************************************************)
VARIABLES
  module,      \* the naga module being resolved
  next,        \* position of the iterator over module.global_variables
  groups,      \* the local BTreeMap under construction
  result,      \* Running until the function returns, then its Result
  entries,     \* create_rust_bindings: the (name, module) pairs of the batch
  entry_next,  \* create_rust_bindings: position of the loop over entries
  mod_builder, \* create_rust_bindings: the items added to the RustModBuilder
  outcome,     \* create_rust_bindings: Running until it returns or panics
  arg,         \* a single call of a generator function: its argument
  ret          \* a single call of a generator function: None until it returns

resolver_vars == <<module, next, groups, result>>
batch_vars == <<entries, entry_next, mod_builder, outcome>>
call_vars == <<arg, ret>>
vars == <<module, next, groups, result, entries, entry_next, mod_builder, outcome,
          arg, ret>>

\* the Result<String, CreateModuleError> of create_rust_bindings, or a panic
BatchRunning == [kind |-> "Running", error |-> NoError, text |-> None]
BatchOk(text_) == [kind |-> "Ok", error |-> NoError, text |-> Some(text_)]
BatchErr(e) == [kind |-> "Err", error |-> e, text |-> None]
BatchPanic == [kind |-> "Panic", error |-> NoError, text |-> None]

\* no call of create_rust_bindings is in progress
BatchIdle ==
  /\ entries = <<>>
  /\ entry_next = 1
  /\ mod_builder = <<>>
  /\ outcome = BatchRunning

\* no single call of a generator function is in progress
CallIdle ==
  /\ arg = None
  /\ ret = None

Init ==
  /\ BatchIdle
  /\ CallIdle
  /\ \E n \in 0..MaxGlobals : \E f \in [1..n -> OptionalBindings] : module = ModuleOf(f)
  /\ next = 1
  /\ groups = BTreeNew
  /\ result = Running

Globals == module.global_variables

InLoop == result.kind = "Running" /\ next <= Len(Globals)

\* a global without a binding is skipped
SkipUnbound ==
  /\ InLoop
  /\ ~IsSome(Globals[next].binding)
  /\ groups' = LoopBody(groups, Globals[next]).groups
  /\ next' = next + 1
  /\ UNCHANGED <<module, result>>
  /\ UNCHANGED batch_vars
  /\ UNCHANGED call_vars

\* a bound global whose binding index is new in its group is pushed
InsertBinding ==
  /\ InLoop
  /\ IsSome(Globals[next].binding)
  /\ LoopBody(groups, Globals[next]).error.variant = "None"
  /\ groups' = LoopBody(groups, Globals[next]).groups
  /\ next' = next + 1
  /\ UNCHANGED <<module, result>>
  /\ UNCHANGED batch_vars
  /\ UNCHANGED call_vars

\* a bound global that repeats a binding index of its group: early return
ReturnDuplicate ==
  /\ InLoop
  /\ IsSome(Globals[next].binding)
  /\ LoopBody(groups, Globals[next]).error.variant # "None"
  /\ groups' = LoopBody(groups, Globals[next]).groups
  /\ result' = Err(LoopBody(groups, Globals[next]).error)
  /\ UNCHANGED <<module, next>>
  /\ UNCHANGED batch_vars
  /\ UNCHANGED call_vars

\* after the loop: Ok(groups)
ReturnOk ==
  /\ result.kind = "Running"
  /\ next > Len(Globals)
  /\ FinalCheck(groups).kind = "Ok"
  /\ result' = FinalCheck(groups)
  /\ UNCHANGED <<module, next, groups>>
  /\ UNCHANGED batch_vars
  /\ UNCHANGED call_vars

\* after the loop: Err(NonConsecutiveBindGroups)
ReturnNonConsecutive ==
  /\ result.kind = "Running"
  /\ next > Len(Globals)
  /\ FinalCheck(groups).kind = "Err"
  /\ result' = FinalCheck(groups)
  /\ UNCHANGED <<module, next, groups>>
  /\ UNCHANGED batch_vars
  /\ UNCHANGED call_vars

Next ==
  \/ SkipUnbound
  \/ InsertBinding
  \/ ReturnDuplicate
  \/ ReturnOk
  \/ ReturnNonConsecutive

Spec == Init /\ [][Next]_vars

(***************************************************************************)
(* create_rust_bindings over a batch of shader modules.  The modules of    *)
(* the batch are the shaders of the tests.                                 *)
(***************************************************************************)
\* `@fragment fn fs_main() {}`
EmbedSourceModule ==
  [ global_variables |-> <<>>,
    entry_points |-> << EntryPoint("fs_main", "Fragment") >> ]

\* a: A at (0, 0), b: A at (1, 0), a vertex and a fragment entry point
ConsecutiveModule ==
  [ global_variables |->
      << GlobalVariable(1, StructA, Some([group |-> 0, binding |-> 0])),
         GlobalVariable(2, StructA, Some([group |-> 1, binding |-> 0])) >>,
    entry_points |-> << EntryPoint("vs_main", "Vertex"), EntryPoint("fs_main", "Fragment") >> ]

\* vec4<f32> at groups 0, 1 and 3
NonConsecutiveModule ==
  [ global_variables |->
      << GlobalVariable(1, Vec4F32, Some([group |-> 0, binding |-> 0])),
         GlobalVariable(2, Vec4F32, Some([group |-> 1, binding |-> 0])),
         GlobalVariable(3, Vec4F32, Some([group |-> 3, binding |-> 0])) >>,
    entry_points |-> << EntryPoint("main", "Fragment") >> ]

\* a: A and b: A, both at (0, 2)
RepeatedBindingsModule ==
  [ global_variables |->
      << GlobalVariable(1, StructA, Some([group |-> 0, binding |-> 2])),
         GlobalVariable(2, StructA, Some([group |-> 0, binding |-> 2])) >>,
    entry_points |-> << EntryPoint("main", "Fragment") >> ]

\* vec4<f32> at groups 0, 1 and 2
ConsecutiveVec4Module ==
  [ global_variables |->
      << GlobalVariable(1, Vec4F32, Some([group |-> 0, binding |-> 0])),
         GlobalVariable(2, Vec4F32, Some([group |-> 1, binding |-> 0])),
         GlobalVariable(3, Vec4F32, Some([group |-> 2, binding |-> 0])) >>,
    entry_points |-> << EntryPoint("main", "Fragment") >> ]

TestModules ==
  { EmbedSourceModule, ConsecutiveModule, NonConsecutiveModule,
    RepeatedBindingsModule, ConsecutiveVec4Module }

ModNames == << "m1", "m2", "m3", "m4", "m5", "m6" >>

\* the batch whose i-th entry is the module f[i]
EntriesOf(f) == [i \in DOMAIN f |-> [mod_name |-> ModNames[i], naga_module |-> f[i]]]

MOD_REFERENCE_ROOT == "_root"

\* mod_builder.add(mod_name, tokens) and mod_builder.add_items(mod_name, ..)
Item(mod_name_, item_, tokens_) == [mod_name |-> mod_name_, item |-> item_, tokens |-> tokens_]

\* RustModBuilder::new(true) followed by the prelude of the root module
ModBuilderNew == << Item(MOD_REFERENCE_ROOT, "prelude_types_assertions", <<"assertions">>) >>

\* the items the loop body adds before it calls bind_groups_module
ItemsBeforeBindGroups(entry) ==
  << Item(entry.mod_name, "structs", <<"structs_items">>),
     Item(entry.mod_name, "consts", <<"consts_items">>) >>

\* the names of the entry points of one stage, in declaration order
EntryNamesOfStage(mod, stage_) ==
  LET OfStage(e) == e.stage = stage_
      selected == SelectSeq(mod.entry_points, OfStage)
  IN [i \in 1..Len(selected) |-> selected[i].name]

\* the items the loop body adds from bind_groups_module to SHADER_STRING
ItemsFromBindGroups(entry, bind_group_data) ==
  << Item(entry.mod_name, "bind_groups",
          bind_groups_module(bind_group_data, shader_stages(entry.naga_module)).tokens),
     Item(entry.mod_name, "vertex_struct_methods", <<>>),
     Item(entry.mod_name, "compute", EntryNamesOfStage(entry.naga_module, "Compute")),
     Item(entry.mod_name, "entry_point_constants",
          [i \in 1..Len(entry.naga_module.entry_points) |->
             entry.naga_module.entry_points[i].name]),
     Item(entry.mod_name, "vertex_states", EntryNamesOfStage(entry.naga_module, "Vertex")),
     Item(entry.mod_name, "create_shader_module", <<"create_shader_module">>),
     Item(entry.mod_name, "create_pipeline_layout",
          << bind_group_layouts(bind_group_data) >>),
     Item(entry.mod_name, "SHADER_STRING", <<"source">>) >>

\* mod_builder.generate() and pretty_print: the items with tokens, module by
\* module in the order the modules were first added; empty token streams
\* leave no text
pretty_print(builder) ==
  LET HasTokens(it) == it.tokens # <<>>
  IN SelectSeq(builder, HasTokens)

BatchInit ==
  /\ \E n \in 0..MaxEntries : \E f \in [1..n -> TestModules] : entries = EntriesOf(f)
  /\ entry_next = 1
  /\ mod_builder = ModBuilderNew
  /\ outcome = BatchRunning
  /\ CallIdle
  /\ module = ModuleOf(<<>>)
  /\ next = 1
  /\ groups = BTreeNew
  /\ result = Running

InBatchLoop == outcome.kind = "Running" /\ entry_next <= Len(entries)

\* Mutant: a module that fails to resolve is skipped and the loop goes on.
ResolveFails_SkipsModule ==
  /\ InBatchLoop
  /\ get_bind_group_data(entries[entry_next].naga_module).kind = "Err"
  /\ entry_next' = entry_next + 1
  /\ UNCHANGED <<entries, mod_builder, outcome>>
  /\ UNCHANGED resolver_vars
  /\ UNCHANGED call_vars

\* `get_bind_group_data(naga_module)?` returns the error of the module
ResolveFails ==
  /\ InBatchLoop
  /\ get_bind_group_data(entries[entry_next].naga_module).kind = "Err"
  /\ outcome' = BatchErr(get_bind_group_data(entries[entry_next].naga_module).error)
  /\ UNCHANGED <<entries, entry_next, mod_builder>>
  /\ UNCHANGED resolver_vars
  /\ UNCHANGED call_vars

\* the module resolves and bind_groups_module panics on one of its bindings
GeneratePanics ==
  /\ InBatchLoop
  /\ LET entry == entries[entry_next]
         data == get_bind_group_data(entry.naga_module)
     IN /\ data.kind = "Ok"
        /\ bind_groups_module(data.groups, shader_stages(entry.naga_module)).panics
        /\ mod_builder' = mod_builder \o ItemsBeforeBindGroups(entry)
  /\ outcome' = BatchPanic
  /\ UNCHANGED <<entries, entry_next>>
  /\ UNCHANGED resolver_vars
  /\ UNCHANGED call_vars

\* the module resolves and all its items are added to the builder
GenerateModule ==
  /\ InBatchLoop
  /\ LET entry == entries[entry_next]
         data == get_bind_group_data(entry.naga_module)
     IN /\ data.kind = "Ok"
        /\ ~bind_groups_module(data.groups, shader_stages(entry.naga_module)).panics
        /\ mod_builder' = mod_builder \o ItemsBeforeBindGroups(entry)
                                      \o ItemsFromBindGroups(entry, data.groups)
  /\ entry_next' = entry_next + 1
  /\ UNCHANGED <<entries, outcome>>
  /\ UNCHANGED resolver_vars
  /\ UNCHANGED call_vars

\* after the loop: Ok(pretty_print(&mod_builder.generate()))
ReturnText ==
  /\ outcome.kind = "Running"
  /\ entry_next > Len(entries)
  /\ outcome' = BatchOk(pretty_print(mod_builder))
  /\ UNCHANGED <<entries, entry_next, mod_builder>>
  /\ UNCHANGED resolver_vars
  /\ UNCHANGED call_vars

BatchNext ==
  \/ ResolveFails
  \/ GeneratePanics
  \/ GenerateModule
  \/ ReturnText

SpecBatch == BatchInit /\ [][BatchNext]_vars

(***************************************************************************)
(* What the module declares, read off the input alone.                     *)
(***************************************************************************)
IsBound(global) == IsSome(global.binding)

BoundPositions == { i \in 1..Len(Globals) : IsBound(Globals[i]) }

GroupAt(i) == Unwrap(Globals[i].binding).group

BindingAt(i) == Unwrap(Globals[i].binding).binding

UsedGroups == { GroupAt(i) : i \in BoundPositions }

\* pairs of bound globals, in declaration order, with the same group and binding
DuplicatedPairs ==
  { p \in BoundPositions \X BoundPositions :
      /\ p[1] < p[2]
      /\ GroupAt(p[1]) = GroupAt(p[2])
      /\ BindingAt(p[1]) = BindingAt(p[2]) }

ContiguousFromZero(S) == S = 0..(Cardinality(S) - 1)

Returned == result.kind # "Running"

ReturnedError(variant_) == result.kind = "Err" /\ result.error.variant = variant_

\* the globals of the module that carry a binding, in declaration order
BoundOnly(mod) ==
  [ global_variables |-> SelectSeq(mod.global_variables, IsBound),
    entry_points |-> mod.entry_points ]

\* the globals bound to group g, in declaration order
RECURSIVE GlobalsOfGroup(_, _)
GlobalsOfGroup(globals, g) ==
  IF globals = <<>> THEN <<>>
  ELSE LET rest == GlobalsOfGroup(Tail(globals), g)
           head == Head(globals)
       IN IF IsBound(head) /\ Unwrap(head.binding).group = g
          THEN << head >> \o rest ELSE rest

(***************************************************************************)
(* C1: in every Ok result the keys of the map, in iteration order, are     *)
(* 0, 1, ..., N-1 with N the number of groups the module uses, whatever    *)
(* the order in which the groups were declared; a module without bound     *)
(* globals returns Ok with the empty map.                                  *)
(***************************************************************************)
C1_KeysContiguousAscending ==
  /\ result.kind = "Ok" =>
       BTreeKeys(result.groups) = [i \in 1..Cardinality(UsedGroups) |-> i - 1]
  /\ (Returned /\ BoundPositions = {}) => result = Ok(BTreeNew)

\* an Ok result for a module that declares a higher group before a lower one
C1_Witness ==
  /\ result.kind = "Ok"
  /\ Len(result.groups) >= 2
  /\ \E i, j \in BoundPositions : i < j /\ GroupAt(i) > GroupAt(j)

(***************************************************************************)
(* C2: after every step of the loop, and in every Ok result, no two        *)
(* bindings of one group have the same binding index.                      *)
(***************************************************************************)
UniqueBindingIndices(m) ==
  \A e \in 1..Len(m) :
    \A i, j \in 1..Len(m[e].value.bindings) :
      i # j => m[e].value.bindings[i].binding_index # m[e].value.bindings[j].binding_index

C2_BindingIndicesUnique ==
  UniqueBindingIndices(groups) /\ UniqueBindingIndices(result.groups)

\* an Ok result with a group of two bindings, after a loop of three steps
C2_Witness ==
  /\ result.kind = "Ok"
  /\ next > 3
  /\ \E e \in 1..Len(result.groups) : Len(result.groups[e].value.bindings) >= 2

(***************************************************************************)
(* C3: when the loop has run to its end, the call fails with               *)
(* NonConsecutiveBindGroups exactly when the set of group indices of the   *)
(* bound globals is not the range 0..number_of_groups.                     *)
(***************************************************************************)
C3_NonConsecutiveExactly ==
  (Returned /\ next > Len(Globals)) =>
     (ReturnedError("NonConsecutiveBindGroups") <=> ~ContiguousFromZero(UsedGroups))

\* NonConsecutiveBindGroups for a module that uses group 0 and has a gap
C3_Witness ==
  /\ ReturnedError("NonConsecutiveBindGroups")
  /\ 0 \in UsedGroups
  /\ \E g \in UsedGroups : g > 0 /\ (g - 1) \notin UsedGroups

(***************************************************************************)
(* C4 as stated: a module that binds a global to group 1 and none to       *)
(* group 0 fails with NonConsecutiveBindGroups.                            *)
(***************************************************************************)
C4_Original ==
  (Returned /\ 1 \in UsedGroups /\ 0 \notin UsedGroups) =>
     ReturnedError("NonConsecutiveBindGroups")

(***************************************************************************)
(* C4 as amended: a module that binds a global to group 1 and none to      *)
(* group 0 always fails; the error is DuplicateBinding when two bound      *)
(* globals share group and binding index, and NonConsecutiveBindGroups     *)
(* otherwise.                                                              *)
(***************************************************************************)
C4_GroupOneWithoutZeroFails ==
  (Returned /\ 1 \in UsedGroups /\ 0 \notin UsedGroups) =>
     IF DuplicatedPairs # {} THEN ReturnedError("DuplicateBinding")
     ELSE ReturnedError("NonConsecutiveBindGroups")

\* NonConsecutiveBindGroups for a module whose lowest group is 1
C4_Witness ==
  /\ ReturnedError("NonConsecutiveBindGroups")
  /\ 1 \in UsedGroups
  /\ 0 \notin UsedGroups

(***************************************************************************)
(* C5 as stated: for every two bound globals with the same group and the   *)
(* same binding index b, the call fails with DuplicateBinding { b }.       *)
(***************************************************************************)
C5_Original ==
  Returned =>
    \A p \in DuplicatedPairs : result = Err(DuplicateBinding(BindingAt(p[2])))

(***************************************************************************)
(* C5 as amended: a module with two bound globals of the same group and    *)
(* binding index fails with DuplicateBinding, and the index it carries is  *)
(* the binding index of such a pair of globals.                            *)
(***************************************************************************)
C5_DuplicateBindingReported ==
  (Returned /\ DuplicatedPairs # {}) =>
     \E p \in DuplicatedPairs : result = Err(DuplicateBinding(BindingAt(p[2])))

\* DuplicateBinding { 1 } for a module that repeats binding 1 of a group
C5_Witness ==
  /\ result = Err(DuplicateBinding(1))
  /\ \E p \in DuplicatedPairs : BindingAt(p[2]) = 1

(***************************************************************************)
(* C6: in every Ok result the bindings of a group are the bound globals of *)
(* that group in declaration order, not in binding-index order.            *)
(***************************************************************************)
C6_DeclarationOrder ==
  result.kind = "Ok" =>
    \A e \in 1..Len(result.groups) :
      LET bindings == result.groups[e].value.bindings
          declared == GlobalsOfGroup(Globals, result.groups[e].key)
      IN /\ Len(bindings) = Len(declared)
         /\ \A k \in 1..Len(bindings) :
              /\ bindings[k].name = declared[k].name
              /\ bindings[k].binding_index = Unwrap(declared[k].binding).binding

\* an Ok result with a group whose first binding has the larger index
C6_Witness ==
  /\ result.kind = "Ok"
  /\ \E e \in 1..Len(result.groups) :
       /\ Len(result.groups[e].value.bindings) >= 2
       /\ result.groups[e].value.bindings[1].binding_index
            > result.groups[e].value.bindings[2].binding_index

C8_UnboundSkipped ==
  /\ \A e \in 1..Len(groups) :
       \E i \in BoundPositions : i < next /\ GroupAt(i) = groups[e].key
  /\ Returned => result = get_bind_group_data(BoundOnly(module))

\* a returned call on a module with an unbound global before a bound one
C8_Witness ==
  /\ result.kind = "Ok"
  /\ \E i, j \in 1..Len(Globals) : i < j /\ ~IsBound(Globals[i]) /\ IsBound(Globals[j])

(***************************************************************************)
(* What a batch holds, read off the input alone.                           *)
(***************************************************************************)
Resolve(entry) == get_bind_group_data(entry.naga_module)

\* the module resolves and every generator of the loop body yields tokens
Generates(entry) ==
  /\ Resolve(entry).kind = "Ok"
  /\ ~bind_groups_module(Resolve(entry).groups, shader_stages(entry.naga_module)).panics

ResolvesOk(entry) == Resolve(entry).kind = "Ok"

\* the builder after the loop body has run for every entry of es
RECURSIVE BuilderAfter(_, _)
BuilderAfter(es, builder) ==
  IF es = <<>> THEN builder
  ELSE BuilderAfter(Tail(es),
                    builder \o ItemsBeforeBindGroups(Head(es))
                            \o ItemsFromBindGroups(Head(es), Resolve(Head(es)).groups))

BatchReturned == outcome.kind # "Running"

(***************************************************************************)
(* C9: a call of create_rust_bindings that does not produce text ends with *)
(* an error value: the error of get_bind_group_data for the module at      *)
(* which it stopped, with no generated text and with no item of that       *)
(* module added to the builder.                                            *)
(***************************************************************************)
C9_FailureIsErrorValue ==
  (BatchReturned /\ outcome.kind # "Ok") =>
     /\ outcome.kind = "Err"
     /\ outcome.text = None
     /\ outcome.error = Resolve(entries[entry_next]).error
     /\ \A i \in 1..Len(mod_builder) :
          mod_builder[i].mod_name # entries[entry_next].mod_name

Storage(access_) == [class |-> "Storage", access |-> access_]
Handle == [class |-> "Handle", access |-> {}]

\* naga::StorageAccess is a set of the flags LOAD and STORE
StorageAccesses == SUBSET {"LOAD", "STORE"}
ImageDimensions ==
  {"ImageDimension::D1", "ImageDimension::D2", "ImageDimension::D3", "ImageDimension::Cube"}
ScalarKinds == {"Sint", "Uint", "Float", "Bool"}
StorageFormats == {"R32Float", "Rg32Sint", "Rgba8Uint"}

\* naga::ImageClass
Sampled(kind_, multi_) ==
  [tag |-> "Sampled", kind |-> kind_, multi |-> multi_, format |-> "", access |-> {}]
Depth(multi_) ==
  [tag |-> "Depth", kind |-> "", multi |-> multi_, format |-> "", access |-> {}]
StorageClass(format_, access_) ==
  [tag |-> "Storage", kind |-> "", multi |-> FALSE, format |-> format_, access |-> access_]
ImageClasses ==
  { Sampled(k, m) : k \in ScalarKinds, m \in BOOLEAN }
    \cup { Depth(m) : m \in BOOLEAN }
    \cup { StorageClass(f, a) : f \in StorageFormats, a \in StorageAccesses }

\* naga::TypeInner, as far as bind_group_layout_entry looks into it
PlainInners == {"Scalar", "Vector", "Matrix", "Atomic", "Array", "Struct"}
PlainTypes == { [inner |-> i] : i \in PlainInners }
ImageTypes == { [inner |-> "Image", dim |-> d, class |-> c] : d \in ImageDimensions, c \in ImageClasses }
SamplerTypes == { [inner |-> "Sampler", comparison |-> c] : c \in BOOLEAN }

BufferSpaces == {Uniform} \cup { Storage(a) : a \in StorageAccesses }
StageSets == SUBSET {"VERTEX", "FRAGMENT", "COMPUTE"}

LayoutEntryCall(ty_, space_, index, stages_) ==
  [ binding |-> [ name |-> Some("a"),
                  binding_index |-> index,
                  binding_type |-> ty_,
                  address_space |-> space_ ],
    stages |-> stages_ ]

ClassifyInit ==
  /\ BatchIdle
  /\ module = ModuleOf(<<>>)
  /\ next = 1
  /\ groups = BTreeNew
  /\ result = Running
  /\ ret = None
  /\ \E index \in 0..MaxBinding : \E stages_ \in StageSets :
       \/ \E ty_ \in PlainTypes : \E space_ \in BufferSpaces :
            arg = Some(LayoutEntryCall(ty_, space_, index, stages_))
       \/ \E ty_ \in ImageTypes :
            arg = Some(LayoutEntryCall(ty_, Handle, index, stages_))
       \/ \E ty_ \in SamplerTypes :
            arg = Some(LayoutEntryCall(ty_, Handle, index, stages_))

\* bind_group_layout_entry returns the tokens of one layout entry
LayoutEntryReturns ==
  /\ ret = None
  /\ ~bind_group_layout_entry(Unwrap(arg).binding, Unwrap(arg).stages).panics
  /\ ret' = Some(bind_group_layout_entry(Unwrap(arg).binding, Unwrap(arg).stages))
  /\ UNCHANGED arg
  /\ UNCHANGED resolver_vars
  /\ UNCHANGED batch_vars

\* bind_group_layout_entry panics: todo!() on the stages or the access,
\* panic! on the sample type or the type
LayoutEntryPanics ==
  /\ ret = None
  /\ bind_group_layout_entry(Unwrap(arg).binding, Unwrap(arg).stages).panics
  /\ ret' = Some(Panic)
  /\ UNCHANGED arg
  /\ UNCHANGED resolver_vars
  /\ UNCHANGED batch_vars

ClassifyNext ==
  \/ LayoutEntryReturns
  \/ LayoutEntryPanics

SpecClassify == ClassifyInit /\ [][ClassifyNext]_vars

\* the call of bind_group_layout_entry has ended
Classified == IsSome(ret)
ClassifiedBinding == Unwrap(arg).binding
ClassifiedType == ClassifiedBinding.binding_type
\* the stage set is one the function has an arm for
StagesSupported == Unwrap(arg).stages \in LayoutEntryStages


(***************************************************************************)
(* C12: a binding whose type is a scalar, a struct or an array classifies  *)
(* as a Buffer with has_dynamic_offset false and no min_binding_size; the  *)
(* buffer is Uniform in the uniform address space and Storage in the       *)
(* storage address space, read_only exactly when the access has no STORE.  *)
(***************************************************************************)
C12_BufferClassification ==
  (Classified /\ StagesSupported /\ ClassifiedType.inner \in {"Scalar", "Struct", "Array"}) =>
     /\ ~Unwrap(ret).panics
     /\ LET ty == Unwrap(ret).tokens.ty
            space == ClassifiedBinding.address_space
        IN /\ ty.tag = "Buffer"
           /\ ty.has_dynamic_offset = FALSE
           /\ ty.min_binding_size = None
           /\ (space.class = "Uniform") => (ty.ty.ty = "Uniform")
           /\ (space.class = "Storage") =>
                /\ ty.ty.ty = "Storage"
                /\ ty.ty.read_only <=> ("STORE" \notin space.access)

\* a read-only storage array has been classified
C12_Witness ==
  /\ Classified /\ StagesSupported
  /\ ClassifiedType.inner = "Array"
  /\ ClassifiedBinding.address_space = Storage({"LOAD"})
  /\ ~Unwrap(ret).panics
  /\ Unwrap(ret).tokens.ty.tag = "Buffer"
  /\ Unwrap(ret).tokens.ty.ty.read_only

(***************************************************************************)
(* C13: in a call of create_rust_bindings, a module that resolves and has  *)
(* a bound global whose type is none of scalar, struct, array, image and   *)
(* sampler (a vec4<f32>) ends the call with the error value                *)
(* UnsupportedBindingType.                                                 *)
(***************************************************************************)
HasUnsupportedBoundType(mod) ==
  \E g \in 1..Len(mod.global_variables) :
    /\ IsBound(mod.global_variables[g])
    /\ Types[mod.global_variables[g].ty].inner
         \notin {"Scalar", "Struct", "Array", "Image", "Sampler"}

C13_UnsupportedTypeIsError ==
  ( /\ BatchReturned
    /\ entry_next <= Len(entries)
    /\ ResolvesOk(entries[entry_next])
    /\ HasUnsupportedBoundType(entries[entry_next].naga_module) ) =>
     /\ outcome.kind = "Err"
     /\ outcome.error.variant = "UnsupportedBindingType"

(***************************************************************************)
(* C14: an image classifies as StorageTexture exactly when its class is    *)
(* Storage and as Texture otherwise; the view dimension is the image       *)
(* dimension of the same name; the multisampled flag of a Sampled or Depth *)
(* class is copied; the sample type is Sint, Uint or Float with filterable *)
(* false after the kind of a Sampled class and Depth for a Depth class.    *)
(* Sampled classes of these three kinds and Depth classes always classify. *)
(***************************************************************************)
DimensionPairs ==
  { <<"ImageDimension::D1", "TextureViewDimension::D1">>,
    <<"ImageDimension::D2", "TextureViewDimension::D2">>,
    <<"ImageDimension::D3", "TextureViewDimension::D3">>,
    <<"ImageDimension::Cube", "TextureViewDimension::Cube">> }

C14_ImageClassification ==
  (Classified /\ StagesSupported /\ ClassifiedType.inner = "Image") =>
     LET c == ClassifiedType.class
     IN /\ ( \/ c.tag = "Depth"
             \/ c.tag = "Sampled" /\ c.kind \in {"Sint", "Uint", "Float"} ) =>
               ~Unwrap(ret).panics
        /\ ~Unwrap(ret).panics =>
             LET t == Unwrap(ret).tokens.ty
             IN /\ t.tag = IF c.tag = "Storage" THEN "StorageTexture" ELSE "Texture"
                /\ <<ClassifiedType.dim, t.view_dimension>> \in DimensionPairs
                /\ (c.tag \in {"Sampled", "Depth"}) => (t.multisampled = c.multi)
                /\ (c.tag = "Sampled" /\ c.kind = "Sint") =>
                     (t.sample_type = [kind |-> "Sint", filterable |-> None])
                /\ (c.tag = "Sampled" /\ c.kind = "Uint") =>
                     (t.sample_type = [kind |-> "Uint", filterable |-> None])
                /\ (c.tag = "Sampled" /\ c.kind = "Float") =>
                     (t.sample_type = [kind |-> "Float", filterable |-> Some(FALSE)])
                /\ (c.tag = "Depth") =>
                     (t.sample_type = [kind |-> "Depth", filterable |-> None])

\* a multisampled cube texture of floats has been classified
C14_Witness ==
  /\ Classified /\ StagesSupported
  /\ ClassifiedType.inner = "Image"
  /\ ClassifiedType.dim = "ImageDimension::Cube"
  /\ ClassifiedType.class = Sampled("Float", TRUE)
  /\ ~Unwrap(ret).panics
  /\ Unwrap(ret).tokens.ty.tag = "Texture"
  /\ Unwrap(ret).tokens.ty.multisampled

(***************************************************************************)
(* C15: the access of a storage texture follows the LOAD and STORE flags:  *)
(* both give ReadWrite, LOAD alone ReadOnly, STORE alone WriteOnly.        *)
(***************************************************************************)
C15_StorageTextureAccess ==
  ( /\ Classified /\ StagesSupported
    /\ ClassifiedType.inner = "Image"
    /\ ClassifiedType.class.tag = "Storage"
    /\ ClassifiedType.class.access # {} ) =>
     /\ ~Unwrap(ret).panics
     /\ LET a == ClassifiedType.class.access
            t == Unwrap(ret).tokens.ty
        IN /\ (a = {"LOAD", "STORE"}) => (t.access = "ReadWrite")
           /\ (a = {"LOAD"}) => (t.access = "ReadOnly")
           /\ (a = {"STORE"}) => (t.access = "WriteOnly")

\* a write-only storage texture has been classified
C15_Witness ==
  /\ Classified /\ StagesSupported
  /\ ClassifiedType.inner = "Image"
  /\ ClassifiedType.class.tag = "Storage"
  /\ ClassifiedType.class.access = {"STORE"}
  /\ ~Unwrap(ret).panics
  /\ Unwrap(ret).tokens.ty.access = "WriteOnly"

(***************************************************************************)
(* C16: a storage texture whose access has neither LOAD nor STORE makes    *)
(* the call end with the error value InvalidState.                         *)
(***************************************************************************)
C16_NoAccessIsInvalidState ==
  ( /\ Classified /\ StagesSupported
    /\ ClassifiedType.inner = "Image"
    /\ ClassifiedType.class.tag = "Storage"
    /\ ClassifiedType.class.access = {} ) =>
     /\ ~Unwrap(ret).panics
     /\ Unwrap(ret).tokens = "InvalidState"

(***************************************************************************)
(* C17: a sampler classifies as Sampler(Comparison) exactly when its       *)
(* comparison flag is set and as Sampler(Filtering) otherwise.             *)
(***************************************************************************)
C17_SamplerClassification ==
  (Classified /\ StagesSupported /\ ClassifiedType.inner = "Sampler") =>
     /\ ~Unwrap(ret).panics
     /\ Unwrap(ret).tokens.ty.tag = "Sampler"
     /\ Unwrap(ret).tokens.ty.sampler =
          IF ClassifiedType.comparison THEN "Comparison" ELSE "Filtering"

\* a comparison sampler has been classified
C17_Witness ==
  /\ Classified /\ StagesSupported
  /\ ClassifiedType.inner = "Sampler"
  /\ ClassifiedType.comparison
  /\ ~Unwrap(ret).panics
  /\ Unwrap(ret).tokens.ty.sampler = "Comparison"


(***************************************************************************)
(* wgsl::vertex_format: the wgpu::VertexFormat of the type of one field of *)
(* a vertex input struct.  A type is a scalar or a vector of 2 to 4        *)
(* components of one scalar kind and byte width, or something else.        *)
(***************************************************************************)
ScalarType(kind_, width_) ==
  [inner |-> "Scalar", size |-> 1, kind |-> kind_, width |-> width_]
VectorType(size_, kind_, width_) ==
  [inner |-> "Vector", size |-> size_, kind |-> kind_, width |-> width_]
OtherType(inner_) ==
  [inner |-> inner_, size |-> 0, kind |-> "", width |-> 0]

VertexFormatOk(format_) == [ok |-> TRUE, format |-> format_, error |-> ""]
VertexFormatErr == [ok |-> FALSE, format |-> "", error |-> "UnsupportedVertexFormat"]

\* Mutant: the byte width of the scalar is not looked at.
FormatPrefix_IgnoresWidth(kind, width) ==
  CASE kind = "Float" /\ width \in {4, 8} -> Some("Float32")
    [] kind = "Sint" /\ width = 4 -> Some("Sint32")
    [] kind = "Uint" /\ width = 4 -> Some("Uint32")
    [] OTHER -> None

\* the scalar kinds and widths that have a vertex format
FormatPrefix(kind, width) ==
  CASE kind = "Float" /\ width = 4 -> Some("Float32")
    [] kind = "Float" /\ width = 8 -> Some("Float64")
    [] kind = "Sint" /\ width = 4 -> Some("Sint32")
    [] kind = "Uint" /\ width = 4 -> Some("Uint32")
    [] OTHER -> None

\* the component counts that have a vertex format
FormatSuffix(size) ==
  CASE size = 1 -> Some("")
    [] size = 2 -> Some("x2")
    [] size = 3 -> Some("x3")
    [] size = 4 -> Some("x4")
    [] OTHER -> None

vertex_format(ty) ==
  IF /\ ty.inner \in {"Scalar", "Vector"}
     /\ IsSome(FormatPrefix(ty.kind, ty.width))
     /\ IsSome(FormatSuffix(ty.size))
  THEN VertexFormatOk(Unwrap(FormatPrefix(ty.kind, ty.width)) \o Unwrap(FormatSuffix(ty.size)))
  ELSE VertexFormatErr

(***************************************************************************)
(* One call of wgsl::vertex_format, on any scalar or vector type of the    *)
(* four scalar kinds and the widths of 1, 2, 4 and 8 bytes, or on a type   *)
(* that is neither.                                                        *)
(***************************************************************************)
ScalarWidths == {1, 2, 4, 8}
VectorSizes == {2, 3, 4}
FieldTypes ==
  { ScalarType(k, w) : k \in ScalarKinds, w \in ScalarWidths }
    \cup { VectorType(n, k, w) : n \in VectorSizes, k \in ScalarKinds, w \in ScalarWidths }
    \cup { OtherType(i) : i \in {"Matrix", "Array", "Struct", "Atomic"} }

VertexFormatInit ==
  /\ BatchIdle
  /\ module = ModuleOf(<<>>)
  /\ next = 1
  /\ groups = BTreeNew
  /\ result = Running
  /\ ret = None
  /\ \E ty_ \in FieldTypes : arg = Some(ty_)

\* the type has a vertex format
VertexFormatReturns ==
  /\ ret = None
  /\ vertex_format(Unwrap(arg)).ok
  /\ ret' = Some(vertex_format(Unwrap(arg)))
  /\ UNCHANGED arg
  /\ UNCHANGED resolver_vars
  /\ UNCHANGED batch_vars

\* the type has no vertex format
VertexFormatRejects ==
  /\ ret = None
  /\ ~vertex_format(Unwrap(arg)).ok
  /\ ret' = Some(vertex_format(Unwrap(arg)))
  /\ UNCHANGED arg
  /\ UNCHANGED resolver_vars
  /\ UNCHANGED batch_vars

VertexFormatNext ==
  \/ VertexFormatReturns
  \/ VertexFormatRejects

SpecVertexFormat == VertexFormatInit /\ [][VertexFormatNext]_vars

(***************************************************************************)
(* C18: every scalar or vector of f32, f64, i32 or u32 with 1 to 4         *)
(* components has exactly one format tag, the one the generated code of    *)
(* the tests names (Float32 ... Uint32x4); two different such types have   *)
(* different tags; every other type is rejected with                       *)
(* UnsupportedVertexFormat.                                                *)
(***************************************************************************)
CoveredKinds ==
  { <<"Float", 4>>, <<"Float", 8>>, <<"Sint", 4>>, <<"Uint", 4>> }
CoveredTypes ==
  { ty \in FieldTypes :
      /\ ty.inner \in {"Scalar", "Vector"}
      /\ <<ty.kind, ty.width>> \in CoveredKinds
      /\ ty.size \in 1..4 }
FormatTags ==
  { "Float32", "Float32x2", "Float32x3", "Float32x4",
    "Float64", "Float64x2", "Float64x3", "Float64x4",
    "Sint32", "Sint32x2", "Sint32x3", "Sint32x4",
    "Uint32", "Uint32x2", "Uint32x3", "Uint32x4" }

MaxFields == 2
MaxLocation == 2
MaxEntryPoints == 2

\* handles into the type arena of a vertex module
HandleF32 == 1
HandleVec2 == 2
HandleVec3 == 3
HandleVec4 == 4
HandleInput0 == 5
HandleInput1 == 6

FieldNames == <<"a", "b", "c", "d", "e">>
EntryNames == <<"vs_main", "vs_main_2", "main_3", "main_4">>

\* the field at location l is declared f32, vec2, vec3 or vec4 in turn
FieldTypeAt(l) == (l % 4) + 1

Location(l) == [tag |-> "Location", location |-> l]

StructMember(name_, ty_, location_) ==
  [name |-> Some(name_), ty |-> ty_, binding |-> Some(Location(location_))]

StructType(name_, members_) ==
  [inner |-> "Struct", name |-> Some(name_), members |-> members_]

\* struct HandleInput0 has one member per element of locs, declared in that order
VertexTypes(locs) ==
  << ScalarType("Float", 4),
     VectorType(2, "Float", 4),
     VectorType(3, "Float", 4),
     VectorType(4, "Float", 4),
     StructType("Input0",
                [i \in DOMAIN locs |-> StructMember(FieldNames[i], FieldTypeAt(locs[i]), locs[i])]),
     StructType("Input1", << StructMember("some_data", HandleVec2, 1) >>) >>

\* a struct argument has no binding of its own, a scalar argument has one
StructArgument(ty_) == [ty |-> ty_, binding |-> None]
ScalarArgument(ty_, location_) == [ty |-> ty_, binding |-> Some(Location(location_))]

ArgumentLists ==
  { <<>>,
    << StructArgument(HandleInput0) >>,
    << StructArgument(HandleInput1) >>,
    << StructArgument(HandleInput0), StructArgument(HandleInput1) >>,
    << StructArgument(HandleInput1), StructArgument(HandleInput0) >>,
    << ScalarArgument(HandleF32, 0) >> }

EntryPointShapes ==
  { [stage |-> "Vertex", arguments |-> a] : a \in ArgumentLists }
    \cup { [stage |-> "Fragment", arguments |-> a] :
             a \in { <<>>, << StructArgument(HandleInput0) >>, << StructArgument(HandleInput1) >> } }
    \cup { [stage |-> "Compute", arguments |-> <<>>] }

VertexModuleOf(locs, shapes) ==
  [ types |-> VertexTypes(locs),
    global_variables |-> <<>>,
    entry_points |-> [i \in DOMAIN shapes |->
                        [ name |-> EntryNames[i],
                          stage |-> shapes[i].stage,
                          function |-> [arguments |-> shapes[i].arguments] ]] ]

Injective(f) == \A i, j \in DOMAIN f : (f[i] = f[j]) => (i = j)

(***************************************************************************)
(* wgsl::get_vertex_input_structs: for the entry points of stage Vertex,   *)
(* the struct types of their arguments, each once, each with its fields    *)
(* as (location, member) pairs ordered by location.                        *)
(***************************************************************************)
RECURSIVE StructArgumentTypes(_, _)
StructArgumentTypes(mod, eps) ==
  IF eps = <<>> THEN <<>>
  ELSE LET e == Head(eps)
           IsStruct(a) == mod.types[a.ty].inner = "Struct"
           here == IF e.stage = "Vertex"
                   THEN [i \in 1..Len(SelectSeq(e.function.arguments, IsStruct)) |->
                           SelectSeq(e.function.arguments, IsStruct)[i].ty]
                   ELSE <<>>
       IN here \o StructArgumentTypes(mod, Tail(eps))

\* keeps the first occurrence of every element
RECURSIVE Dedup(_)
Dedup(seq) ==
  IF seq = <<>> THEN <<>>
  ELSE LET init == Dedup(SubSeq(seq, 1, Len(seq) - 1))
           last == seq[Len(seq)]
       IN IF \E i \in 1..Len(init) : init[i] = last THEN init ELSE Append(init, last)

RECURSIVE SortByLocation(_)
SortByLocation(fields) ==
  IF fields = <<>> THEN <<>>
  ELSE LET m == CHOOSE i \in 1..Len(fields) :
                  \A j \in 1..Len(fields) : fields[i][1] <= fields[j][1]
           rest == [k \in 1..(Len(fields) - 1) |-> IF k < m THEN fields[k] ELSE fields[k + 1]]
       IN <<fields[m]>> \o SortByLocation(rest)

VertexInput(ty) ==
  [ name |-> Unwrap(ty.name),
    fields |-> SortByLocation([i \in 1..Len(ty.members) |->
                                 << Unwrap(ty.members[i].binding).location, ty.members[i] >>]) ]

get_vertex_input_structs(mod) ==
  LET handles == Dedup(StructArgumentTypes(mod, mod.entry_points))
  IN [i \in 1..Len(handles) |-> VertexInput(mod.types[handles[i]])]


(***************************************************************************)
(* vertex_input_structs and vertex_struct_methods: one impl block per      *)
(* vertex input struct, with one wgpu::VertexAttribute per field.          *)
(***************************************************************************)
\* Mutant: the attribute carries its position in the list as its location.
VertexAttribute_PositionAsLocation(mod, name_, fields, i) ==
  LET m == fields[i][2]
      format == vertex_format(mod.types[m.ty])
  IN IF ~IsSome(m.name) \/ ~format.ok THEN Panic
     ELSE Tokens([ format |-> format.format,
                   offset |-> [offset_of |-> << name_, Unwrap(m.name) >>],
                   shader_location |-> i - 1 ])

\* Mutant: every attribute takes the offset of the first listed field.
VertexAttribute_FirstFieldOffset(mod, name_, fields, i) ==
  LET m == fields[i][2]
      format == vertex_format(mod.types[m.ty])
  IN IF ~IsSome(m.name) \/ ~format.ok THEN Panic
     ELSE Tokens([ format |-> format.format,
                   offset |-> [offset_of |-> << name_, Unwrap(fields[1][2].name) >>],
                   shader_location |-> fields[i][1] ])

\* the closure over (location, m): unwrap panics on a nameless member, and a
\* type without vertex format has no identifier to emit
VertexAttribute(mod, name_, fields, i) ==
  LET m == fields[i][2]
      format == vertex_format(mod.types[m.ty])
  IN IF ~IsSome(m.name) \/ ~format.ok THEN Panic
     ELSE Tokens([ format |-> format.format,
                   offset |-> [offset_of |-> << name_, Unwrap(m.name) >>],
                   shader_location |-> fields[i][1] ])

\* the impl block of one vertex input struct
VertexInputImpl(mod, input) ==
  IF \E i \in 1..Len(input.fields) : VertexAttribute(mod, input.name, input.fields, i).panics
  THEN Panic
  ELSE Tokens([ name |-> input.name,
                count |-> Len(input.fields),
                attributes |-> [i \in 1..Len(input.fields) |->
                                  VertexAttribute(mod, input.name, input.fields, i).tokens],
                array_stride |-> [size_of |-> input.name] ])

\* Mutant: the first vertex input struct is left out.
vertex_input_structs_SkipsFirst(mod) ==
  LET all == get_vertex_input_structs(mod)
      vertex_inputs == IF all = <<>> THEN <<>> ELSE Tail(all)
  IN IF \E i \in 1..Len(vertex_inputs) : VertexInputImpl(mod, vertex_inputs[i]).panics
     THEN Panic
     ELSE Tokens([i \in 1..Len(vertex_inputs) |-> VertexInputImpl(mod, vertex_inputs[i]).tokens])

vertex_input_structs(mod) ==
  LET vertex_inputs == get_vertex_input_structs(mod)
  IN IF \E i \in 1..Len(vertex_inputs) : VertexInputImpl(mod, vertex_inputs[i]).panics
     THEN Panic
     ELSE Tokens([i \in 1..Len(vertex_inputs) |-> VertexInputImpl(mod, vertex_inputs[i]).tokens])

\* quote!(#(#structs)*): the impl blocks one after the other
vertex_struct_methods(mod) == vertex_input_structs(mod)

(***************************************************************************)
(* One call of vertex_struct_methods on a module whose struct Input0 has   *)
(* up to MaxFields fields at distinct locations up to MaxLocation and      *)
(* which has up to MaxEntryPoints entry points.                            *)
(***************************************************************************)
VertexInit ==
  /\ BatchIdle
  /\ module = ModuleOf(<<>>)
  /\ next = 1
  /\ groups = BTreeNew
  /\ result = Running
  /\ ret = None
  /\ \E n \in 1..MaxFields : \E locs \in [1..n -> 0..MaxLocation] :
       /\ Injective(locs)
       /\ \E k \in 0..MaxEntryPoints : \E shapes \in [1..k -> EntryPointShapes] :
            arg = Some(VertexModuleOf(locs, shapes))

\* vertex_struct_methods returns the impl blocks of the module
VertexStructMethodsReturns ==
  /\ ret = None
  /\ ~vertex_struct_methods(Unwrap(arg)).panics
  /\ ret' = Some(vertex_struct_methods(Unwrap(arg)))
  /\ UNCHANGED arg
  /\ UNCHANGED resolver_vars
  /\ UNCHANGED batch_vars

VertexNext == VertexStructMethodsReturns

SpecVertex == VertexInit /\ [][VertexNext]_vars


\* the call of vertex_struct_methods has returned its impl blocks
VertexReturned == IsSome(ret) /\ ~Unwrap(ret).panics
VertexModule == Unwrap(arg)
Impls == Unwrap(ret).tokens

\* the struct type of the module that has the given name
StructNamed(name_) ==
  LET h == CHOOSE h \in 1..Len(VertexModule.types) :
                    /\ VertexModule.types[h].inner = "Struct"
                    /\ VertexModule.types[h].name = Some(name_)
  IN VertexModule.types[h]

MemberLocation(m) == Unwrap(m.binding).location

\* the names of the structs that are the type of an argument of an entry
\* point of the given stage
StructsUsedByStage(stage_) ==
  LET eps == VertexModule.entry_points
      args(x) == eps[x].function.arguments
  IN UNION { { Unwrap(VertexModule.types[args(x)[a].ty].name) :
                 a \in { y \in 1..Len(args(x)) :
                           VertexModule.types[args(x)[y].ty].inner = "Struct" } } :
               x \in { x \in 1..Len(eps) : eps[x].stage = stage_ } }

(***************************************************************************)
(* C19: in the impl block of every vertex input struct the attributes are  *)
(* in ascending order of location, whatever the order the fields were      *)
(* declared in; there is one attribute per field, and each attribute names *)
(* the field whose declared location is its shader_location.               *)
(***************************************************************************)
C19_AttributesOrderedByLocation ==
  VertexReturned =>
    \A k \in 1..Len(Impls) :
      LET attrs == Impls[k].attributes
          members == StructNamed(Impls[k].name).members
      IN /\ Impls[k].count = Len(members)
         /\ Len(attrs) = Len(members)
         /\ \A i, j \in 1..Len(attrs) :
              (i < j) => (attrs[i].shader_location < attrs[j].shader_location)
         /\ \A i \in 1..Len(attrs) :
              \E m \in 1..Len(members) :
                /\ members[m].name = Some(attrs[i].offset.offset_of[2])
                /\ MemberLocation(members[m]) = attrs[i].shader_location

\* Input0 declares location 2 before location 0 and is listed 0 then 2
C19_Witness ==
  /\ VertexReturned
  /\ Len(StructNamed("Input0").members) = 2
  /\ MemberLocation(StructNamed("Input0").members[1]) = 2
  /\ MemberLocation(StructNamed("Input0").members[2]) = 0
  /\ \E k \in 1..Len(Impls) :
       /\ Impls[k].name = "Input0"
       /\ Impls[k].attributes[1].shader_location = 0
       /\ Impls[k].attributes[1].offset.offset_of = << "Input0", "b" >>
       /\ Impls[k].attributes[2].shader_location = 2
       /\ Impls[k].attributes[2].offset.offset_of = << "Input0", "a" >>

(***************************************************************************)
(* C20: the output has an impl block for a struct exactly when the struct  *)
(* is the type of an argument of some entry point of stage Vertex, and one *)
(* block only; no vertex entry point with a struct argument means no       *)
(* output, and a struct used by a fragment entry point only has no block.  *)
(***************************************************************************)
C20_OnlyVertexInputStructs ==
  VertexReturned =>
    /\ { Impls[k].name : k \in 1..Len(Impls) } = StructsUsedByStage("Vertex")
    /\ \A k, l \in 1..Len(Impls) : (Impls[k].name = Impls[l].name) => (k = l)

\* Input0 is the input of a fragment entry point only, Input1 of a vertex one
C20_Witness ==
  /\ VertexReturned
  /\ StructsUsedByStage("Vertex") = {"Input1"}
  /\ StructsUsedByStage("Fragment") = {"Input0"}
  /\ Len(Impls) = 1
  /\ Impls[1].name = "Input1"

(***************************************************************************)
(* C26: a module that has both a duplicated (group, binding) pair and a    *)
(* set of group indices that is not 0..N-1 fails with DuplicateBinding;    *)
(* NonConsecutiveBindGroups is returned only after every global was        *)
(* scanned, for a module without duplicated pair.                          *)
(***************************************************************************)
C26_DuplicateBeforeNonConsecutive ==
  /\ (Returned /\ DuplicatedPairs # {} /\ ~ContiguousFromZero(UsedGroups)) =>
        ReturnedError("DuplicateBinding")
  /\ ReturnedError("NonConsecutiveBindGroups") =>
        /\ next = Len(Globals) + 1
        /\ DuplicatedPairs = {}

\* group 1 alone, with binding 0 declared twice: DuplicateBinding
C26_Witness ==
  /\ ReturnedError("DuplicateBinding")
  /\ DuplicatedPairs # {}
  /\ UsedGroups = {1}

(***************************************************************************)
(* C27: when several (group, binding) pairs are duplicated, the error      *)
(* carries the binding index of the first global, in declaration order,    *)
(* that repeats the pair of an earlier global, and the scan stops at that  *)
(* global.                                                                 *)
(***************************************************************************)
FirstRepeat ==
  CHOOSE i \in { p[2] : p \in DuplicatedPairs } :
    \A p \in DuplicatedPairs : i <= p[2]

C27_FirstDuplicateWins ==
  (Returned /\ DuplicatedPairs # {}) =>
     /\ result = Err(DuplicateBinding(BindingAt(FirstRepeat)))
     /\ next = FirstRepeat

\* two different pairs are duplicated; the first repeat is binding 1 and a
\* later global repeats binding 0
C27_Witness ==
  /\ Returned
  /\ \E p, q \in DuplicatedPairs :
       /\ BindingAt(p[2]) = 1
       /\ BindingAt(q[2]) = 0
       /\ p[2] < q[2]
       /\ p[2] = FirstRepeat
  /\ result = Err(DuplicateBinding(1))
  /\ next < Len(Globals)


(***************************************************************************)
(* The bind groups of one module, as the body of the loop of               *)
(* create_rust_bindings makes them: get_bind_group_data, then              *)
(* bind_groups_module with the stages of the module, then the list of      *)
(* bind group layouts of create_pipeline_layout.  The module has up to     *)
(* MaxBoundGlobals globals of varying type and address space.              *)
(***************************************************************************)
MaxBoundGlobals == 2

\* type and address space of a global: a uniform struct, a read-write
\* storage struct, a uniform vec4<f32>
Payloads ==
  { [ty |-> StructA, space |-> Uniform],
    [ty |-> StructA, space |-> Storage({"LOAD", "STORE"})],
    [ty |-> Vec4F32, space |-> Uniform] }

\* a global with a binding has any payload, one without is a uniform struct
DeclaredGlobals ==
  { [payload |-> p, binding |-> Some(b)] : p \in Payloads, b \in ResourceBindings }
    \cup { [payload |-> [ty |-> StructA, space |-> Uniform], binding |-> None] }

\* the stages of the entry points of the module, in declaration order
StageLists ==
  { << >>, << "Vertex" >>, << "Fragment" >>, << "Compute" >>,
    << "Vertex", "Fragment" >>, << "Vertex", "Compute" >>, << "Compute", "Fragment" >>,
    << "Vertex", "Fragment", "Compute" >> }

BindingsModuleOf(f, stage_list) ==
  [ global_variables |->
      [i \in DOMAIN f |->
         [ name |-> Some(GlobalNames[i]),
           ty |-> f[i].payload.ty,
           space |-> f[i].payload.space,
           binding |-> f[i].binding ]],
    entry_points |-> [i \in DOMAIN stage_list |-> EntryPoint(EntryNames[i], stage_list[i])] ]

BindingsOutcome(kind_, error_, data_, bind_groups_, layouts_) ==
  [ kind |-> kind_, error |-> error_, data |-> data_,
    bind_groups |-> bind_groups_, bind_group_layouts |-> layouts_ ]

BindingsInit ==
  /\ BatchIdle
  /\ module = ModuleOf(<<>>)
  /\ next = 1
  /\ groups = BTreeNew
  /\ result = Running
  /\ ret = None
  /\ \E n \in 0..MaxBoundGlobals : \E f \in [1..n -> DeclaredGlobals] :
       \E stage_list \in StageLists :
         arg = Some(BindingsModuleOf(f, stage_list))

\* get_bind_group_data(naga_module)? returns the error
BindingsResolveFails ==
  /\ ret = None
  /\ get_bind_group_data(Unwrap(arg)).kind = "Err"
  /\ ret' = Some(BindingsOutcome("Err", get_bind_group_data(Unwrap(arg)).error,
                                 BTreeNew, <<>>, <<>>))
  /\ UNCHANGED arg
  /\ UNCHANGED resolver_vars
  /\ UNCHANGED batch_vars

\* bind_groups_module panics on the resolved map
BindingsGenerationPanics ==
  /\ ret = None
  /\ LET data == get_bind_group_data(Unwrap(arg))
     IN /\ data.kind = "Ok"
        /\ bind_groups_module(data.groups, shader_stages(Unwrap(arg))).panics
        /\ ret' = Some(BindingsOutcome("Panic", NoError, data.groups, <<>>, <<>>))
  /\ UNCHANGED arg
  /\ UNCHANGED resolver_vars
  /\ UNCHANGED batch_vars

\* the bind groups and the pipeline layout of the module are generated
BindingsGenerated ==
  /\ ret = None
  /\ LET data == get_bind_group_data(Unwrap(arg))
     IN /\ data.kind = "Ok"
        /\ ~bind_groups_module(data.groups, shader_stages(Unwrap(arg))).panics
        /\ ret' = Some(BindingsOutcome(
                         "Ok", NoError, data.groups,
                         bind_groups_module(data.groups, shader_stages(Unwrap(arg))).tokens,
                         bind_group_layouts(data.groups)))
  /\ UNCHANGED arg
  /\ UNCHANGED resolver_vars
  /\ UNCHANGED batch_vars

BindingsNext ==
  \/ BindingsResolveFails
  \/ BindingsGenerationPanics
  \/ BindingsGenerated

SpecBindings == BindingsInit /\ [][BindingsNext]_vars


\* the call has ended; its module, the stages of the module, its outcome
BindingsReturned == IsSome(ret)
BindingsModule == Unwrap(arg)
BindingsGlobals == BindingsModule.global_variables
BindingsStages == shader_stages(BindingsModule)
Out == Unwrap(ret)
BoundGlobalPositions == { i \in 1..Len(BindingsGlobals) : IsBound(BindingsGlobals[i]) }
GroupsOfModule == { Unwrap(BindingsGlobals[i].binding).group : i \in BoundGlobalPositions }
ExpectedPass ==
  IF BindingsStages = {"COMPUTE"} THEN "wgpu::ComputePass" ELSE "wgpu::RenderPass"

(***************************************************************************)
(* C22: for a module without bound globals bind_groups_module emits        *)
(* nothing; otherwise the k-th bind group type is WgpuBindGroup(k-1) and   *)
(* its set binds at slot k-1, WgpuBindGroups has the field bind_group(k-1) *)
(* of that type for every group and no other field, WgpuBindGroups::set    *)
(* and set_bind_groups call set on bind_group0, bind_group1, ... once each *)
(* in that order, and every pass type is ComputePass when the stages of    *)
(* the module are exactly COMPUTE and RenderPass otherwise.                *)
(***************************************************************************)
C22_BindGroupsModuleShape ==
  (BindingsReturned /\ Out.kind = "Ok") =>
     LET n == Cardinality(GroupsOfModule)
     IN IF n = 0 THEN Out.bind_groups = <<>>
        ELSE /\ Len(Out.bind_groups) = 2
             /\ LET m == Out.bind_groups[1]
                    f == Out.bind_groups[2]
                IN /\ Len(m.bind_groups) = n
                   /\ Len(m.fields) = n
                   /\ Len(m.set_groups) = n
                   /\ Len(f.set_groups) = n
                   /\ Len(f.parameters) = n
                   /\ m.pass = ExpectedPass
                   /\ f.pass = ExpectedPass
                   /\ \A k \in 1..n :
                        /\ m.bind_groups[k].name = << "WgpuBindGroup", k - 1 >>
                        /\ m.bind_groups[k].set.set_bind_group = k - 1
                        /\ m.bind_groups[k].set.pass = ExpectedPass
                        /\ m.fields[k] = [ field |-> << "bind_group", k - 1 >>,
                                           ty |-> << "WgpuBindGroup", k - 1 >> ]
                        /\ m.set_groups[k] = [ receiver |-> << "bind_group", k - 1 >>,
                                               call |-> "set" ]
                        /\ f.set_groups[k] = [ receiver |-> << "bind_group", k - 1 >>,
                                               call |-> "set" ]
                        /\ f.parameters[k] = [ name |-> << "bind_group", k - 1 >>,
                                               ty |-> << "WgpuBindGroup", k - 1 >> ]

\* a compute module that declares group 1 before group 0
C22_Witness ==
  /\ BindingsReturned /\ Out.kind = "Ok"
  /\ BindingsStages = {"COMPUTE"}
  /\ Len(BindingsGlobals) = 2
  /\ IsBound(BindingsGlobals[1]) /\ Unwrap(BindingsGlobals[1].binding).group = 1
  /\ IsBound(BindingsGlobals[2]) /\ Unwrap(BindingsGlobals[2].binding).group = 0
  /\ Len(Out.bind_groups[1].bind_groups) = 2
  /\ Out.bind_groups[1].set_groups[1].receiver = << "bind_group", 0 >>
  /\ Out.bind_groups[1].pass = "wgpu::ComputePass"

(***************************************************************************)
(* C23: the layout descriptor of every group has one entry per binding of  *)
(* the group, in the order of the bindings; the entry of a binding has its *)
(* binding_index as binding number, the stages of the module as visibility *)
(* and count None.                                                         *)
(***************************************************************************)
C23_LayoutEntriesFollowBindings ==
  (BindingsReturned /\ Out.kind = "Ok") =>
     \A e \in 1..Len(Out.data) :
       LET bindings == Out.data[e].value.bindings
           layout_entries == Out.bind_groups[1].bind_groups[e].LAYOUT_DESCRIPTOR
       IN /\ Len(layout_entries) = Len(bindings)
          /\ \A k \in 1..Len(bindings) :
               /\ layout_entries[k].binding = bindings[k].binding_index
               /\ layout_entries[k].visibility = BindingsStages
               /\ layout_entries[k].count = None

\* a group whose bindings were declared 1 then 0 has its entries 1 then 0
C23_Witness ==
  /\ BindingsReturned /\ Out.kind = "Ok"
  /\ Len(Out.data) = 1
  /\ Len(Out.data[1].value.bindings) = 2
  /\ Out.data[1].value.bindings[1].binding_index = 1
  /\ Out.bind_groups[1].bind_groups[1].LAYOUT_DESCRIPTOR[1].binding = 1
  /\ Out.bind_groups[1].bind_groups[1].LAYOUT_DESCRIPTOR[2].binding = 0

(***************************************************************************)
(* C28: in every Ok result of get_bind_group_data each bound global is     *)
(* found exactly once, in the group of its declared group index, with its  *)
(* name, binding index, type and address space; the map has as many        *)
(* bindings as the module has bound globals and no group without binding.  *)
(***************************************************************************)
BindingOfGlobal(g) ==
  [ name |-> g.name,
    binding_index |-> Unwrap(g.binding).binding,
    binding_type |-> Types[g.ty],
    address_space |-> g.space ]

\* the places (entry of the map, position in the group) of the bindings
BindingPlaces(data) ==
  UNION { { << e, k >> : k \in 1..Len(data[e].value.bindings) } : e \in 1..Len(data) }

C28_BoundGlobalsOneToOne ==
  (BindingsReturned /\ Out.kind \in {"Ok", "Panic"}) =>
     /\ Cardinality(BindingPlaces(Out.data)) = Cardinality(BoundGlobalPositions)
     /\ \A e \in 1..Len(Out.data) : Len(Out.data[e].value.bindings) > 0
     /\ \A i \in BoundGlobalPositions :
          LET g == BindingsGlobals[i]
              places == { p \in BindingPlaces(Out.data) :
                            Out.data[p[1]].value.bindings[p[2]].name = g.name }
          IN /\ Cardinality(places) = 1
             /\ \A p \in places :
                  /\ Out.data[p[1]].key = Unwrap(g.binding).group
                  /\ Out.data[p[1]].value.bindings[p[2]] = BindingOfGlobal(g)

\* a read-write storage struct in group 1 and a uniform vec4 in group 0
C28_Witness ==
  /\ BindingsReturned /\ Out.kind \in {"Ok", "Panic"}
  /\ Len(Out.data) = 2
  /\ Out.data[1].value.bindings[1].binding_type.inner = "Vector"
  /\ Out.data[1].value.bindings[1].name = Some("b")
  /\ Out.data[2].value.bindings[1].address_space = Storage({"LOAD", "STORE"})
  /\ Out.data[2].value.bindings[1].name = Some("a")

(***************************************************************************)
(* C29: create_pipeline_layout lists one bind group layout per group of    *)
(* the resolved map, in ascending order of the group index, and the type   *)
(* it names for group k is a type that bind_groups_module generates for    *)
(* group k; for a module without bound globals the list is empty.          *)
(***************************************************************************)
C29_PipelineLayoutNamesGeneratedTypes ==
  (BindingsReturned /\ Out.kind = "Ok") =>
     /\ Len(Out.bind_group_layouts) = Len(Out.data)
     /\ \A e \in 1..Len(Out.data) :
          /\ Out.bind_group_layouts[e][2] = Out.data[e].key
          /\ Out.bind_group_layouts[e] = Out.bind_groups[1].bind_groups[e].name


(***************************************************************************)
(* C30: the layout entries of a module with a bound resource are produced  *)
(* only when the stages of the module are exactly VERTEX_FRAGMENT,         *)
(* COMPUTE, VERTEX or FRAGMENT; under every other stage set (no stage,     *)
(* COMPUTE with VERTEX or FRAGMENT, all three) the generation panics       *)
(* after get_bind_group_data returned Ok: nothing is produced and no       *)
(* error value is returned.                                                *)
(***************************************************************************)
C30_OtherStageSetsAbort ==
  (BindingsReturned /\ BoundGlobalPositions # {}) =>
     /\ Out.kind = "Ok" =>
          /\ BindingsStages \in
               { {"VERTEX", "FRAGMENT"}, {"COMPUTE"}, {"VERTEX"}, {"FRAGMENT"} }
          /\ \A e \in 1..Len(Out.data) :
               Len(Out.bind_groups[1].bind_groups[e].LAYOUT_DESCRIPTOR) > 0
     /\ (/\ Out.kind # "Err"
         /\ BindingsStages \notin
              { {"VERTEX", "FRAGMENT"}, {"COMPUTE"}, {"VERTEX"}, {"FRAGMENT"} }) =>
          /\ Out.kind = "Panic"
          /\ Out.error = NoError
          /\ Out.bind_groups = <<>>
          /\ Out.bind_group_layouts = <<>>

\* a vertex and a compute entry point with one uniform struct bound
C30_Witness ==
  /\ BindingsReturned
  /\ BindingsStages = {"VERTEX", "COMPUTE"}
  /\ Len(BindingsGlobals) = 1
  /\ IsBound(BindingsGlobals[1])
  /\ BindingsGlobals[1].ty = StructA
  /\ BindingsGlobals[1].space = Uniform
  /\ Out.kind = "Panic"



(***************************************************************************)
(* compute_module and vertex_states: the items generated per entry point.  *)
(***************************************************************************)
\* str::to_uppercase on the names of the entry points
to_uppercase(name_) ==
  CASE name_ = "vs_main" -> "VS_MAIN"
    [] name_ = "vs_main_2" -> "VS_MAIN_2"
    [] name_ = "main_3" -> "MAIN_3"
    [] name_ = "main_4" -> "MAIN_4"

\* CaseExt::to_snake on the names of the vertex input structs
to_snake(name_) ==
  CASE name_ = "Input0" -> "input0"
    [] name_ = "Input1" -> "input1"

\* pub const <NAME>_WORKGROUP_SIZE: [u32; 3] = [x, y, z];
workgroup_size(e) ==
  [ name |-> to_uppercase(e.name) \o "_WORKGROUP_SIZE",
    value |-> << e.workgroup_size[1], e.workgroup_size[2], e.workgroup_size[3] >> ]

\* pub fn create_<name>_pipeline(device) -> wgpu::ComputePipeline
create_compute_pipeline(e) ==
  [ name |-> "create_" \o e.name \o "_pipeline",
    label |-> Some("Compute Pipeline " \o e.name),
    entry_point |-> e.name ]

ComputeItems(e) ==
  [ workgroup_size_constant |-> workgroup_size(e),
    create_pipeline |-> create_compute_pipeline(e) ]

\* Mutant: the items are generated for the entry points of every stage.
compute_module_EveryStage(mod) ==
  LET entry_points_ == [i \in 1..Len(mod.entry_points) |-> ComputeItems(mod.entry_points[i])]
  IN IF entry_points_ = <<>> THEN <<>>
     ELSE << [item |-> "mod compute", entry_points |-> entry_points_] >>

compute_module(mod) ==
  LET IsCompute(e) == e.stage = "Compute"
      compute == SelectSeq(mod.entry_points, IsCompute)
      entry_points_ == [i \in 1..Len(compute) |-> ComputeItems(compute[i])]
  IN IF entry_points_ = <<>> THEN <<>>
     ELSE << [item |-> "mod compute", entry_points |-> entry_points_] >>

\* <step_mode>: wgpu::VertexStepMode, one per vertex input struct
StepModeParams(vertex_inputs) ==
  [i \in 1..Len(vertex_inputs) |->
     [name |-> to_snake(vertex_inputs[i].name), ty |-> "wgpu::VertexStepMode"]]

\* <Name>::vertex_buffer_layout(<step_mode>), one per vertex input struct
LayoutExpressions(vertex_inputs) ==
  [i \in 1..Len(vertex_inputs) |->
     [ receiver |-> vertex_inputs[i].name,
       call |-> "vertex_buffer_layout",
       argument |-> to_snake(vertex_inputs[i].name) ]]

\* pub fn <name>_entry(<step mode params>) -> VertexEntry<n>
VertexEntryFn(entry_point, vertex_inputs) ==
  [ item |-> "fn entry",
    fn_name |-> entry_point.name \o "_entry",
    parameters |-> StepModeParams(vertex_inputs),
    n |-> Len(vertex_inputs),
    entry_point |-> "ENTRY_" \o to_uppercase(entry_point.name),
    buffers |-> LayoutExpressions(vertex_inputs) ]

VertexStatePrelude ==
  << [item |-> "struct VertexEntry"], [item |-> "fn vertex_state"] >>

\* Mutant: the entry functions are generated for the entry points of every stage.
vertex_states_EveryStage(mod) ==
  LET vertex_inputs == get_vertex_input_structs(mod)
      vertex_entries == [i \in 1..Len(mod.entry_points) |->
                           VertexEntryFn(mod.entry_points[i], vertex_inputs)]
  IN IF vertex_entries = <<>> THEN <<>>
     ELSE VertexStatePrelude \o vertex_entries

vertex_states(mod) ==
  LET vertex_inputs == get_vertex_input_structs(mod)
      IsVertex(e) == e.stage = "Vertex"
      vertex == SelectSeq(mod.entry_points, IsVertex)
      vertex_entries == [i \in 1..Len(vertex) |-> VertexEntryFn(vertex[i], vertex_inputs)]
  IN IF vertex_entries = <<>> THEN <<>>
     ELSE VertexStatePrelude \o vertex_entries

(***************************************************************************)
(* One call of compute_module or of vertex_states on a module with up to   *)
(* MaxEntryPoints entry points; a compute entry point has one of the       *)
(* workgroup sizes, an entry point of another stage has none.              *)
(***************************************************************************)
WorkgroupSizes == { << 1, 2, 3 >>, << 256, 1, 1 >> }
NoWorkgroupSize == << 0, 0, 0 >>

EntryPointDeclarations ==
  { [shape |-> s, workgroup_size |-> w] :
      s \in { x \in EntryPointShapes : x.stage = "Compute" }, w \in WorkgroupSizes }
    \cup { [shape |-> s, workgroup_size |-> NoWorkgroupSize] :
             s \in { x \in EntryPointShapes : x.stage # "Compute" } }

\* struct Input0 has its fields at locations 1 and 0, in that order
EntryModuleOf(decls) ==
  [ types |-> VertexTypes(<< 1, 0 >>),
    global_variables |-> <<>>,
    entry_points |-> [i \in DOMAIN decls |->
                        [ name |-> EntryNames[i],
                          stage |-> decls[i].shape.stage,
                          workgroup_size |-> decls[i].workgroup_size,
                          function |-> [arguments |-> decls[i].shape.arguments] ]] ]

EntryInit ==
  /\ BatchIdle
  /\ module = ModuleOf(<<>>)
  /\ next = 1
  /\ groups = BTreeNew
  /\ result = Running
  /\ ret = None
  /\ \E k \in 0..MaxEntryPoints : \E decls \in [1..k -> EntryPointDeclarations] :
       arg = Some(EntryModuleOf(decls))

\* compute_module returns its tokens
ComputeModuleReturns ==
  /\ ret = None
  /\ ret' = Some([call |-> "compute_module", tokens |-> compute_module(Unwrap(arg))])
  /\ UNCHANGED arg
  /\ UNCHANGED resolver_vars
  /\ UNCHANGED batch_vars

\* vertex_states returns its tokens
VertexStatesReturns ==
  /\ ret = None
  /\ ret' = Some([call |-> "vertex_states", tokens |-> vertex_states(Unwrap(arg))])
  /\ UNCHANGED arg
  /\ UNCHANGED resolver_vars
  /\ UNCHANGED batch_vars

EntryNext ==
  \/ ComputeModuleReturns
  \/ VertexStatesReturns

SpecEntryPoints == EntryInit /\ [][EntryNext]_vars


\* the call that returned, and the entry points of a stage in declaration order
Called(fn) == IsSome(ret) /\ Unwrap(ret).call = fn
Emitted == Unwrap(ret).tokens
EntryPointsOfStage(stage_) ==
  LET OfStage(e) == e.stage = stage_
  IN SelectSeq(VertexModule.entry_points, OfStage)

\* the names of the vertex input structs, in the order of first use by a
\* vertex entry point
VertexInputNames ==
  [i \in 1..Len(get_vertex_input_structs(VertexModule)) |->
     get_vertex_input_structs(VertexModule)[i].name]

(***************************************************************************)
(* C24: vertex_states emits nothing for a module without vertex entry      *)
(* point, also when a fragment entry point takes a struct with locations;  *)
(* otherwise, after the VertexEntry struct and the vertex_state function,  *)
(* it emits one <name>_entry function per vertex entry point, in           *)
(* declaration order and none for a fragment or compute entry point; each  *)
(* has N step mode parameters and N buffer layouts, the k-th of both for   *)
(* the k-th vertex input struct, N being the number of structs that are    *)
(* arguments of vertex entry points.                                       *)
(***************************************************************************)
C24_OneEntryFnPerVertexEntryPoint ==
  Called("vertex_states") =>
     LET vertex == EntryPointsOfStage("Vertex")
         n == Cardinality(StructsUsedByStage("Vertex"))
     IN IF vertex = <<>> THEN Emitted = <<>>
        ELSE /\ Len(Emitted) = 2 + Len(vertex)
             /\ Emitted[1].item = "struct VertexEntry"
             /\ Emitted[2].item = "fn vertex_state"
             /\ Len(VertexInputNames) = n
             /\ \A i \in 1..Len(vertex) :
                  LET f == Emitted[2 + i]
                  IN /\ f.fn_name = vertex[i].name \o "_entry"
                     /\ f.n = n
                     /\ Len(f.parameters) = n
                     /\ Len(f.buffers) = n
                     /\ \A k \in 1..n :
                          /\ f.buffers[k].receiver = VertexInputNames[k]
                          /\ f.buffers[k].argument = f.parameters[k].name
                          /\ f.parameters[k].ty = "wgpu::VertexStepMode"
                          /\ f.parameters[k].name =
                               (IF VertexInputNames[k] = "Input0" THEN "input0" ELSE "input1")

\* a fragment entry point taking Input0, then a vertex entry point taking
\* Input1 and Input0
C24_Witness ==
  /\ Called("vertex_states")
  /\ Len(VertexModule.entry_points) = 2
  /\ VertexModule.entry_points[1].stage = "Fragment"
  /\ StructsUsedByStage("Fragment") = {"Input0"}
  /\ VertexModule.entry_points[2].stage = "Vertex"
  /\ Len(Emitted) = 3
  /\ Emitted[3].fn_name = "vs_main_2_entry"
  /\ Emitted[3].n = 2
  /\ Emitted[3].buffers[1].receiver = "Input1"
  /\ Emitted[3].parameters[2].name = "input0"

(***************************************************************************)
(* C25: compute_module emits nothing for a module without compute entry    *)
(* point; otherwise it emits, for the compute entry points only and in     *)
(* declaration order, the constant <UPPERCASE NAME>_WORKGROUP_SIZE holding *)
(* the three components of the workgroup size of the entry point and the   *)
(* function create_<name>_pipeline whose entry_point is the name.          *)
(***************************************************************************)
WorkgroupSizeConstantOf(name_) ==
  CASE name_ = "vs_main" -> "VS_MAIN_WORKGROUP_SIZE"
    [] name_ = "vs_main_2" -> "VS_MAIN_2_WORKGROUP_SIZE"
    [] name_ = "main_3" -> "MAIN_3_WORKGROUP_SIZE"
    [] name_ = "main_4" -> "MAIN_4_WORKGROUP_SIZE"

C25_ItemsPerComputeEntryPoint ==
  Called("compute_module") =>
     LET compute == EntryPointsOfStage("Compute")
     IN IF compute = <<>> THEN Emitted = <<>>
        ELSE /\ Len(Emitted) = 1
             /\ Emitted[1].item = "mod compute"
             /\ Len(Emitted[1].entry_points) = Len(compute)
             /\ \A i \in 1..Len(compute) :
                  LET c == Emitted[1].entry_points[i]
                  IN /\ c.workgroup_size_constant.name = WorkgroupSizeConstantOf(compute[i].name)
                     /\ c.workgroup_size_constant.value = compute[i].workgroup_size
                     /\ Len(c.workgroup_size_constant.value) = 3
                     /\ c.create_pipeline.name = "create_" \o compute[i].name \o "_pipeline"
                     /\ c.create_pipeline.entry_point = compute[i].name

\* a vertex entry point, then a compute entry point of workgroup size (1, 2, 3)
C25_Witness ==
  /\ Called("compute_module")
  /\ Len(VertexModule.entry_points) = 2
  /\ VertexModule.entry_points[1].stage = "Vertex"
  /\ VertexModule.entry_points[2].stage = "Compute"
  /\ Len(Emitted[1].entry_points) = 1
  /\ Emitted[1].entry_points[1].workgroup_size_constant =
       [name |-> "VS_MAIN_2_WORKGROUP_SIZE", value |-> << 1, 2, 3 >>]
  /\ Emitted[1].entry_points[1].create_pipeline.name = "create_vs_main_2_pipeline"



(***************************************************************************)
(* The memory layout of the generated structs.  The generated struct has   *)
(* the fields of the WGSL struct in declaration order and is repr(C):      *)
(* every field lies at the next multiple of its alignment after the field  *)
(* before it, and the size is the end of the last field rounded up to the  *)
(* largest alignment.  The alignment of a field depends on the Rust type   *)
(* chosen for it: that of its scalar for an array type, 16 for a vec4      *)
(* mapped to a SIMD type.                                                  *)
(***************************************************************************)
AlignmentRules == {"Scalar", "Simd"}

SizeOfType(ty) == ty.size * ty.width

AlignOfType(ty, rule) ==
  IF rule = "Simd" /\ ty.inner = "Vector" /\ ty.size = 4 THEN 4 * ty.width ELSE ty.width

AlignUp(n, a) == ((n + a - 1) \div a) * a

\* the offset of the i-th member in declaration order
RECURSIVE MemberOffset(_, _, _, _)
MemberOffset(mod, members, i, rule) ==
  LET before == IF i = 1 THEN 0
                ELSE MemberOffset(mod, members, i - 1, rule)
                       + SizeOfType(mod.types[members[i - 1].ty])
  IN AlignUp(before, AlignOfType(mod.types[members[i].ty], rule))

StructOfName(mod, name_) ==
  mod.types[CHOOSE h \in 1..Len(mod.types) :
              mod.types[h].inner = "Struct" /\ mod.types[h].name = Some(name_)]

\* std::mem::offset_of!(Name, field) on the generated struct
offset_of(mod, path, rule) ==
  LET members == StructOfName(mod, path[1]).members
      i == CHOOSE i \in 1..Len(members) : members[i].name = Some(path[2])
  IN MemberOffset(mod, members, i, rule)

Max(set) == CHOOSE x \in set : \A y \in set : y <= x

\* std::mem::size_of::<Name>() on the generated struct
size_of(mod, name_, rule) ==
  LET members == StructOfName(mod, name_).members
      n == Len(members)
      align == Max({ AlignOfType(mod.types[members[i].ty], rule) : i \in 1..n })
  IN AlignUp(MemberOffset(mod, members, n, rule) + SizeOfType(mod.types[members[n].ty]), align)

(***************************************************************************)
(* One call of vertex_struct_methods on a module with one vertex entry     *)
(* point whose struct Input0 has up to MaxLayoutFields fields at distinct  *)
(* locations, declared in any order.                                       *)
(***************************************************************************)
MaxLayoutFields == 4
MaxLayoutLocation == 3

LayoutArgumentLists == { a \in ArgumentLists : \E i \in 1..Len(a) : a[i].ty = HandleInput0 }

VertexLayoutInit ==
  /\ BatchIdle
  /\ module = ModuleOf(<<>>)
  /\ next = 1
  /\ groups = BTreeNew
  /\ result = Running
  /\ ret = None
  /\ \E n \in 1..MaxLayoutFields : \E locs \in [1..n -> 0..MaxLayoutLocation] :
       /\ Injective(locs)
       /\ \E a \in LayoutArgumentLists :
            arg = Some(VertexModuleOf(locs, << [stage |-> "Vertex", arguments |-> a] >>))

SpecVertexLayout == VertexLayoutInit /\ [][VertexNext]_vars


\* the attribute and the stride as numbers, under a rule of alignment
AttributeOffset(attr, rule) == offset_of(VertexModule, attr.offset.offset_of, rule)
ArrayStride(impl, rule) == size_of(VertexModule, impl.array_stride.size_of, rule)
\* the member of the struct of an impl block that an attribute is for
MemberOfAttribute(impl, attr) ==
  LET members == StructNamed(impl.name).members
  IN members[CHOOSE m \in 1..Len(members) : MemberLocation(members[m]) = attr.shader_location]
FormatSize(format_) ==
  CASE format_ = "Float32" -> 4
    [] format_ = "Float32x2" -> 8
    [] format_ = "Float32x3" -> 12
    [] format_ = "Float32x4" -> 16

(***************************************************************************)
(* C21: in the impl block of every vertex input struct, the offset of each *)
(* attribute is offset_of its own field (the field declared at the         *)
(* location of the attribute) in its own struct, and array_stride is       *)
(* size_of that struct.  Under C layout this makes the data of no two      *)
(* attributes overlap and the stride cover every attribute; for the struct *)
(* that declares f32, vec2, vec3, vec4 at locations 0 to 3 the formats are *)
(* Float32, Float32x2, Float32x3, Float32x4, every offset is at least the  *)
(* offset before it plus the size of the field before it, and the stride   *)
(* is at least the last offset plus 16.                                    *)
(***************************************************************************)
C21_OffsetsAreOwnFieldOffsets ==
  VertexReturned =>
    \A k \in 1..Len(Impls) : \A rule \in AlignmentRules :
      LET impl == Impls[k]
          attrs == impl.attributes
          n == Len(attrs)
      IN /\ impl.array_stride.size_of = impl.name
         /\ \A i \in 1..n :
              /\ attrs[i].offset.offset_of[1] = impl.name
              /\ Some(attrs[i].offset.offset_of[2]) = MemberOfAttribute(impl, attrs[i]).name
              /\ AttributeOffset(attrs[i], rule) + FormatSize(attrs[i].format)
                   <= ArrayStride(impl, rule)
         /\ \A i, j \in 1..n :
              (i # j) =>
                 \/ AttributeOffset(attrs[i], rule) + FormatSize(attrs[i].format)
                      <= AttributeOffset(attrs[j], rule)
                 \/ AttributeOffset(attrs[j], rule) + FormatSize(attrs[j].format)
                      <= AttributeOffset(attrs[i], rule)
         /\ (/\ n = 4
             /\ \A i \in 1..4 : MemberLocation(StructNamed(impl.name).members[i]) = i - 1) =>
               /\ [i \in 1..4 |-> attrs[i].format] =
                    << "Float32", "Float32x2", "Float32x3", "Float32x4" >>
               /\ \A i \in 1..3 :
                    AttributeOffset(attrs[i + 1], rule) >=
                      AttributeOffset(attrs[i], rule) + FormatSize(attrs[i].format)
               /\ ArrayStride(impl, rule) >= AttributeOffset(attrs[4], rule) + 16

\* the struct of the example: offsets 0, 4, 12, 24 and stride 40 with the
\* alignment of the scalar, offsets 0, 4, 12, 32 and stride 48 with a vec4
\* aligned to 16
C21_Witness ==
  /\ VertexReturned
  /\ Len(Impls) = 1
  /\ Impls[1].name = "Input0"
  /\ Len(StructNamed("Input0").members) = 4
  /\ \A i \in 1..4 : MemberLocation(StructNamed("Input0").members[i]) = i - 1
  /\ [i \in 1..4 |-> AttributeOffset(Impls[1].attributes[i], "Scalar")] = << 0, 4, 12, 24 >>
  /\ ArrayStride(Impls[1], "Scalar") = 40
  /\ [i \in 1..4 |-> AttributeOffset(Impls[1].attributes[i], "Simd")] = << 0, 4, 12, 32 >>
  /\ ArrayStride(Impls[1], "Simd") = 48

====
